---- MODULE Spec2Model ----
(***************************************************************************)
(* The N3 streaming parser of oxttl (lib/oxttl/src/n3.rs): the pushdown    *)
(* recognizer N3Recognizer driven token by token, and the chunk-fed and    *)
(* reader facades that shuttle bytes to it.                                 *)
(***************************************************************************)
EXTENDS Integers, Sequences, FiniteSets, TLC

(***************************************************************************)
(* Bounds of the model.                                                    *)
(***************************************************************************)
\* number of tokens one parse is fed
MaxTokens == 8

\* number of tokens of a parse over one of the larger alphabets
MaxStatement == 6

\* number of tokens of a parse that keeps the history of its output
MaxHistory == 7

\* number of tokens of each of two parses started from one N3Parser
MaxParse == 3

\* number of transitions after which the application of one token is cut
\* off: a chain of re-dispatches that reaches it has not come to an end
Fuel == 32

(***************************************************************************)
(* Sequences used as Vec: push is Append, pop removes the last element.    *)
(***************************************************************************)
Last(s) == s[Len(s)]

Front(s) == SubSeq(s, 1, Len(s) - 1)

(***************************************************************************)
(* N3Term, N3Quad, Predicate.                                              *)
(* A blank node made by BlankNode::default() carries n > 0 and an empty    *)
(* label; a blank node written in the input carries its label and n = 0.   *)
(***************************************************************************)
NamedNode(iri) ==
    [kind |-> "NamedNode", v |-> iri, n |-> 0, datatype |-> "", language |-> ""]

BlankNode(label) ==
    [kind |-> "BlankNode", v |-> label, n |-> 0, datatype |-> "", language |-> ""]

DefaultBlankNode(k) ==
    [kind |-> "BlankNode", v |-> "", n |-> k, datatype |-> "", language |-> ""]

Variable(name) ==
    [kind |-> "Variable", v |-> name, n |-> 0, datatype |-> "", language |-> ""]

TypedLiteral(value, dt) ==
    [kind |-> "Literal", v |-> value, n |-> 0, datatype |-> dt, language |-> ""]

LanguageTaggedLiteral(value, lang) ==
    [kind |-> "Literal", v |-> value, n |-> 0,
     datatype |-> "http://www.w3.org/1999/02/22-rdf-syntax-ns#langString",
     language |-> lang]

XSD_STRING == "http://www.w3.org/2001/XMLSchema#string"
XSD_INTEGER == "http://www.w3.org/2001/XMLSchema#integer"
XSD_DECIMAL == "http://www.w3.org/2001/XMLSchema#decimal"
XSD_DOUBLE == "http://www.w3.org/2001/XMLSchema#double"
XSD_BOOLEAN == "http://www.w3.org/2001/XMLSchema#boolean"

SimpleLiteral(value) == TypedLiteral(value, XSD_STRING)

RDF_TYPE == NamedNode("http://www.w3.org/1999/02/22-rdf-syntax-ns#type")
RDF_FIRST == NamedNode("http://www.w3.org/1999/02/22-rdf-syntax-ns#first")
RDF_REST == NamedNode("http://www.w3.org/1999/02/22-rdf-syntax-ns#rest")
RDF_NIL == NamedNode("http://www.w3.org/1999/02/22-rdf-syntax-ns#nil")
OWL_SAME_AS == NamedNode("http://www.w3.org/2002/07/owl#sameAs")
LOG_IMPLIES == NamedNode("http://www.w3.org/2000/10/swap/log#implies")

\* GraphName::DefaultGraph
DefaultGraph ==
    [kind |-> "DefaultGraph", v |-> "", n |-> 0, datatype |-> "", language |-> ""]

\* the absence of a term (Option::None), used by the history variables only
NoTerm ==
    [kind |-> "None", v |-> "", n |-> 0, datatype |-> "", language |-> ""]

Regular(term) == [inverted |-> FALSE, term |-> term]

Inverted(term) == [inverted |-> TRUE, term |-> term]

(***************************************************************************)
(* N3Token, as the lexer hands it to the recognizer.                       *)
(***************************************************************************)
Tok(type, v, local, might) ==
    [type |-> type, v |-> v, local |-> local, might_be_invalid_iri |-> might]

IriRef(iri) == Tok("IriRef", iri, "", FALSE)

PrefixedName(prefix, local, might) == Tok("PrefixedName", prefix, local, might)

BlankNodeLabel(label) == Tok("BlankNodeLabel", label, "", FALSE)

VariableToken(name) == Tok("Variable", name, "", FALSE)

String(value) == Tok("String", value, "", FALSE)

Integer(value) == Tok("Integer", value, "", FALSE)

Decimal(value) == Tok("Decimal", value, "", FALSE)

Double(value) == Tok("Double", value, "", FALSE)

LangTag(tag) == Tok("LangTag", tag, "", FALSE)

PlainKeyword(k) == Tok("PlainKeyword", k, "", FALSE)

Punctuation(p) == Tok("Punctuation", p, "", FALSE)

IsPunctuation(token, set) == token.type = "Punctuation" /\ token.v \in set

IsKeyword(token, set) == token.type = "PlainKeyword" /\ token.v \in set

\* str::eq_ignore_ascii_case on the keywords the alphabet contains
EqIgnoreAsciiCase(k, word) ==
    \/ k = word
    \/ word = "base" /\ k \in {"BASE", "Base"}
    \/ word = "prefix" /\ k \in {"PREFIX", "Prefix"}

\* str::to_ascii_lowercase on the language tags the alphabet contains
ToAsciiLowercase(s) ==
    CASE s = "EN" -> "en"
      [] s = "En" -> "en"
      [] s = "BASE" -> "base"
      [] s = "PREFIX" -> "prefix"
      [] OTHER -> s

(***************************************************************************)
(* N3State: a frame of the work stack.                                     *)
(***************************************************************************)
Frame(state, name, is_inverse, value) ==
    [state |-> state, name |-> name, is_inverse |-> is_inverse, value |-> value]

St(state) == Frame(state, "", FALSE, "")

PrefixExpectIriState(name) == Frame("PrefixExpectIri", name, FALSE, "")

PathAfterIndicatorState(is_inverse) == Frame("PathAfterIndicator", "", is_inverse, "")

LiteralPossibleSuffixState(value) == Frame("LiteralPossibleSuffix", "", FALSE, value)

LiteralExpectDatatypeState(value) == Frame("LiteralExpectDatatype", "", FALSE, value)

(***************************************************************************)
(* The prefix table (HashMap<String, Iri<String>>) is a function from the  *)
(* declared prefix names to their IRIs.                                    *)
(***************************************************************************)
NoPrefixes == [p \in {} |-> ""]

Insert(map, key, value) ==
    [k \in (DOMAIN map) \cup {key} |-> IF k = key THEN value ELSE map[k]]

\* Option<Iri<String>>::None for the base IRI
NoBase == ""

\* local names whose concatenation with a prefix IRI is not a valid IRI
InvalidLocals == {"<bad>"}

\* lexer::resolve_local_name: prefix lookup, concatenation, revalidation
resolve_local_name(prefix, local, might_be_invalid_iri, prefixes) ==
    IF prefix \in DOMAIN prefixes
    THEN IF might_be_invalid_iri /\ local \in InvalidLocals
         THEN [ok |-> FALSE, term |-> NoTerm,
               err |-> "The prefixed name builds an invalid IRI"]
         ELSE [ok |-> TRUE, term |-> NamedNode(prefixes[prefix] \o local),
               err |-> ""]
    ELSE [ok |-> FALSE, term |-> NoTerm,
          err |-> "The prefix has not been declared"]

(***************************************************************************)
(* N3Recognizer.  A recognizer value is a record of the struct's fields    *)
(* (stack, base_iri of lexer_options, prefixes, terms, predicates,         *)
(* contexts) together with the two output vectors recognize_next appends   *)
(* to (results, errors), the number of blank nodes BlankNode::default()    *)
(* has handed out (bnodes) and whether an unwrap() of None has panicked.   *)
(*                                                                         *)
(* History fields, which the code does not hold and no handler reads:      *)
(*   clauses      subjects of the triples clauses and property lists the   *)
(*                recognizer is inside of, innermost last;                  *)
(*   formulas     blank nodes of the formulas opened by an accepted '{'    *)
(*                and not yet closed by a '}' token, innermost last;        *)
(*   notes        for each quad of results: the handler that emitted it    *)
(*                and the clause and formula it was emitted in;             *)
(*   accepted_dot whether this token was the '.' N3DocExpectDot consumed;  *)
(*   closed       the blank node of the formula this token closed;         *)
(*   failed       whether N3Recognizer::error ran for this token;          *)
(*   formula_nodes the blank nodes made for '{' so far;                    *)
(*   awaiting_dot, resumed      the recovery after an error;               *)
(*   directive, declared, followed, directive_depth                        *)
(*                the directive being read and the one just completed;     *)
(*   lists, closed_list         the collections being read and the one     *)
(*                this token closed, with their cells and spine quads;     *)
(*   steps        the terms the path steps being read start from;          *)
(*   made, all_made, written    the blank nodes BlankNode::default() made  *)
(*                for this token and so far, and those the input wrote;    *)
(*   property_nodes, closed_property                                       *)
(*                the blank nodes made for '[' and the list ']' closed;    *)
(*   value        the term the expression item read last stands for;       *)
(*   verb_forms, frames         the verbs being read and the predicate     *)
(*                frames of the verbs whose object list is open;           *)
(*   bare         the subjects of the clauses that ended at their subject; *)
(*   failure      the message of the last call of N3Recognizer::error;     *)
(*   unresolved   the rule in which a prefixed name of this token did not  *)
(*                resolve;                                                 *)
(*   dispatched   the number of calls of recognize_next for this token.    *)
(***************************************************************************)
Push(self, frame) == [self EXCEPT !.stack = Append(@, frame)]

PushAll(self, frames) == [self EXCEPT !.stack = @ \o frames]

\* self.terms.push(term); history: term is what the item just read stands for
PushTerm(self, term) == [self EXCEPT !.terms = Append(@, term), !.value = term]

PushPredicate(self, predicate) == [self EXCEPT !.predicates = Append(@, predicate)]

PushError(self, msg) == [self EXCEPT !.errors = Append(@, msg)]

\* Vec::pop without unwrap: nothing happens on an empty vector
PopTerm(self) ==
    IF self.terms = <<>> THEN self ELSE [self EXCEPT !.terms = Front(@)]

PopPredicate(self) ==
    IF self.predicates = <<>> THEN self ELSE [self EXCEPT !.predicates = Front(@)]

\* Option::unwrap on None
Panic(self) == [self EXCEPT !.panicked = TRUE]

EnterClause(self, subject) == [self EXCEPT !.clauses = Append(@, subject)]

LeaveClause(self) ==
    IF self.clauses = <<>> THEN self ELSE [self EXCEPT !.clauses = Front(@)]

CurrentClause(self) ==
    IF self.clauses = <<>> THEN NoTerm ELSE Last(self.clauses)

CurrentFormula(self) ==
    IF self.formulas = <<>> THEN DefaultGraph ELSE Last(self.formulas)

\* mutant of N3Recognizer::error: the recognizer falls back to an empty
\* prefix table
error_forgetting(self, msg) ==
    [self EXCEPT !.errors = Append(@, msg),
                 !.failure = msg,
                 !.stack = <<>>,
                 !.prefixes = NoPrefixes,
                 !.clauses = <<>>,
                 !.formulas = <<>>,
                 !.directive = "",
                 !.lists = <<>>,
                 !.steps = <<>>,
                 !.verb_forms = <<>>,
                 !.frames = <<>>,
                 !.failed = TRUE]

\* mutant of N3Recognizer::error: the error is recorded and the work stack
\* is left as it is
error_keep_stack(self, msg) ==
    [self EXCEPT !.errors = Append(@, msg), !.failed = TRUE]

\* N3Recognizer::error
error(self, msg) ==
    [self EXCEPT !.errors = Append(@, msg),
                 !.failure = msg,
                 !.stack = <<>>,
                 !.clauses = <<>>,
                 !.formulas = <<>>,
                 !.directive = "",
                 !.lists = <<>>,
                 !.steps = <<>>,
                 !.verb_forms = <<>>,
                 !.frames = <<>>,
                 !.failed = TRUE]

\* the Err arm of a resolve_local_name call: self.error(errors, e)
Unresolved(self, rule, e) == [error(self, e) EXCEPT !.unresolved = rule]

\* RuleRecognizer::error_recovery_state
error_recovery_state(self) ==
    [self EXCEPT !.stack = <<>>,
                 !.terms = <<>>,
                 !.predicates = <<>>,
                 !.contexts = <<>>,
                 !.clauses = <<>>,
                 !.formulas = <<>>,
                 !.directive = "",
                 !.lists = <<>>,
                 !.steps = <<>>,
                 !.verb_forms = <<>>,
                 !.frames = <<>>]

\* history: no collection
NoList == [some |-> FALSE, cells |-> <<>>, quads |-> <<>>]

\* history: the first cell of the innermost collection being read
CurrentList(self) ==
    IF self.lists = <<>> THEN NoTerm ELSE Last(self.lists).cells[1]

\* history: a collection begins with the cell BlankNode::default() made
BeginList(self, root) ==
    [self EXCEPT !.lists = Append(@, [some |-> TRUE, cells |-> <<root>>,
                                      quads |-> <<>>])]

\* history: the innermost collection gets the spine quads `quads` and, when
\* `cells` is not empty, one more cell
GrowList(self, quads, cells) ==
    IF self.lists = <<>>
    THEN self
    ELSE [self EXCEPT !.lists[Len(self.lists)].quads = @ \o quads,
                      !.lists[Len(self.lists)].cells = @ \o cells]

\* history: ')' ends the innermost collection
EndList(self) ==
    IF self.lists = <<>>
    THEN self
    ELSE [self EXCEPT !.closed_list = Last(self.lists), !.lists = Front(@),
                      !.value = Last(self.lists).cells[1]]

\* history: the term the path step being read starts from
CurrentStep(self) ==
    IF self.steps = <<>> THEN NoTerm ELSE Last(self.steps)

\* history: '!' or '^' begins a path step from the current term
BeginStep(self) ==
    [self EXCEPT !.steps = Append(@, IF self.terms = <<>> THEN NoTerm
                                     ELSE Last(self.terms))]

\* history: the path step has emitted its quad
EndStep(self) ==
    IF self.steps = <<>> THEN self ELSE [self EXCEPT !.steps = Front(@)]

\* N3Recognizer::quad
quad(self, subject, predicate, object) ==
    [subject |-> subject,
     predicate |-> predicate,
     object |-> object,
     graph_name |-> IF self.contexts = <<>> THEN DefaultGraph
                    ELSE Last(self.contexts)]

\* mutant of results.push(q): the quad is put before the quads the token has
\* already emitted
EmitFirst(self, by, q, inverted) ==
    [self EXCEPT !.results = <<q>> \o @,
                 !.notes = <<[by |-> by,
                              clause |-> CurrentClause(self),
                              formula |-> CurrentFormula(self),
                              origin |-> CurrentStep(self),
                              list |-> CurrentList(self),
                              inverted |-> inverted]>> \o @]

\* results.push(q), with the note of where q was emitted
Emit(self, by, q, inverted) ==
    [self EXCEPT !.results = Append(@, q),
                 !.notes = Append(@, [by |-> by,
                                      clause |-> CurrentClause(self),
                                      formula |-> CurrentFormula(self),
                                      origin |-> CurrentStep(self),
                                      list |-> CurrentList(self),
                                      inverted |-> inverted])]

\* BlankNode::default(): the next unused blank node
NewBlankNode(self) == DefaultBlankNode(self.bnodes + 1)

TakeBlankNode(self) == [self EXCEPT !.bnodes = @ + 1]

\* the predicate frame the grammar gives a verb of each form, expr being the
\* term the expression of the verb stands for
VerbFrame(form, expr) ==
    CASE form = "a" -> Regular(RDF_TYPE)
      [] form = "=" -> Regular(OWL_SAME_AS)
      [] form = "=>" -> Regular(LOG_IMPLIES)
      [] form = "<=" -> Inverted(LOG_IMPLIES)
      [] form = "has" -> Regular(expr)
      [] form = "is" -> Inverted(expr)
      [] form = "<-" -> Inverted(expr)
      [] OTHER -> Regular(expr)

\* history: a verb of this form begins
BeginVerb(self, form) == [self EXCEPT !.verb_forms = Append(@, form)]

\* history: the verb that began last is complete, its object list begins
Framed(self) ==
    IF self.verb_forms = <<>>
    THEN self
    ELSE [self EXCEPT !.verb_forms = Front(@),
                      !.frames = Append(@, VerbFrame(Last(self.verb_forms),
                                                     self.value))]

\* history: the innermost open object list has ended
EndVerb(self) ==
    IF self.frames = <<>> THEN self ELSE [self EXCEPT !.frames = Front(@)]

\* history: no blank node property list has been closed
NoPropertyList == [some |-> FALSE, node |-> NoTerm, empty |-> FALSE]

\* history: node is the blank node of a property list that has been opened
BeginPropertyList(self, node) ==
    [self EXCEPT !.property_nodes = @ \cup {node}]

\* history: ']' has closed the property list of node
EndPropertyList(self, node, empty) ==
    [self EXCEPT !.closed_property = [some |-> TRUE, node |-> node, empty |-> empty],
                 !.value = node]

\* history: node is the value of one call of BlankNode::default()
Made(self, node) ==
    [self EXCEPT !.made = Append(@, node), !.all_made = @ \cup {node}]

\* history: the keyword of a directive has been read, in its '@' form (a
\* LangTag token) or in its SPARQL form (a PlainKeyword token)
Directive(self, token) ==
    [self EXCEPT !.directive = IF token.type = "LangTag" THEN "@" ELSE "sparql"]

\* history: the IRI of the directive has been read and has taken effect
Declared(self) ==
    [self EXCEPT !.declared = self.directive,
                 !.directive = "",
                 !.directive_depth = Len(self.contexts)]

RECURSIVE recognize_next(_, _)

\* mutant of N3Doc: the rule is not put back under the statement it begins
N3DocOnce(self, token) ==
    IF token.type = "PlainKeyword" /\ EqIgnoreAsciiCase(token.v, "base")
    THEN Push(Directive(self, token), St("BaseExpectIri"))
    ELSE IF token.type = "PlainKeyword" /\ EqIgnoreAsciiCase(token.v, "prefix")
    THEN Push(Directive(self, token), St("PrefixExpectPrefix"))
    ELSE IF token = LangTag("prefix")
    THEN PushAll(Directive(self, token),
                 <<St("N3DocExpectDot"), St("PrefixExpectPrefix")>>)
    ELSE IF token = LangTag("base")
    THEN PushAll(Directive(self, token),
                 <<St("N3DocExpectDot"), St("BaseExpectIri")>>)
    ELSE recognize_next(PushAll(self, <<St("N3DocExpectDot"), St("Triples")>>), token)

N3Doc(self0, token) ==
    LET self == Push(self0, St("N3Doc")) IN
    IF token.type = "PlainKeyword" /\ EqIgnoreAsciiCase(token.v, "base")
    THEN Push(Directive(self, token), St("BaseExpectIri"))
    ELSE IF token.type = "PlainKeyword" /\ EqIgnoreAsciiCase(token.v, "prefix")
    THEN Push(Directive(self, token), St("PrefixExpectPrefix"))
    ELSE IF token = LangTag("prefix")
    THEN PushAll(Directive(self, token),
                 <<St("N3DocExpectDot"), St("PrefixExpectPrefix")>>)
    ELSE IF token = LangTag("base")
    THEN PushAll(Directive(self, token),
                 <<St("N3DocExpectDot"), St("BaseExpectIri")>>)
    ELSE recognize_next(PushAll(self, <<St("N3DocExpectDot"), St("Triples")>>), token)

\* mutant of N3DocExpectDot: a missing '.' is passed over in silence
N3DocExpectDotSilent(self, token) ==
    IF token = Punctuation(".")
    THEN [self EXCEPT !.accepted_dot = TRUE]
    ELSE recognize_next(self, token)

\* mutant of N3DocExpectDot: a missing '.' is an error as any other, which
\* clears the work stack
N3DocExpectDotClearing(self, token) ==
    IF token = Punctuation(".")
    THEN [self EXCEPT !.accepted_dot = TRUE]
    ELSE recognize_next(
             error(self, "A dot is expected at the end of N3 statements"), token)

N3DocExpectDot(self, token) ==
    IF token = Punctuation(".")
    THEN [self EXCEPT !.accepted_dot = TRUE]
    ELSE recognize_next(
             PushError(self, "A dot is expected at the end of N3 statements"), token)

BaseExpectIri(self, token) ==
    IF token.type = "IriRef"
    THEN Declared([self EXCEPT !.base_iri = token.v])
    ELSE error(self, "The BASE keyword should be followed by an IRI")

PrefixExpectPrefix(self, token) ==
    IF token.type = "PrefixedName" /\ token.local = ""
    THEN Push(self, PrefixExpectIriState(token.v))
    ELSE error(self, "The PREFIX keyword should be followed by a prefix like 'ex:'")

PrefixExpectIri(self, name, token) ==
    IF token.type = "IriRef"
    THEN Declared([self EXCEPT !.prefixes = Insert(@, name, token.v)])
    ELSE error(self,
           "The PREFIX declaration should be followed by a prefix and its value as an IRI")

\* history: a terminator follows the subject of a triples clause
BareClause(self) == [self EXCEPT !.bare = @ \cup {self.value}]

Triples(self, token) ==
    recognize_next(PushAll(self, <<St("TriplesMiddle"), St("Path")>>), token)

TriplesMiddle(self, token) ==
    IF IsPunctuation(token, {".", "]", "}", ")"})
    THEN recognize_next(BareClause(self), token)
    ELSE recognize_next(
             EnterClause(
                 PushAll(self, <<St("TriplesEnd"), St("PredicateObjectList")>>),
                 IF self.terms = <<>> THEN NoTerm ELSE Last(self.terms)),
             token)

TriplesEnd(self, token) ==
    recognize_next(LeaveClause(PopTerm(self)), token)

PredicateObjectList(self, token) ==
    recognize_next(
        PushAll(self, <<St("PredicateObjectListEnd"), St("ObjectsList"), St("Verb")>>),
        token)

PredicateObjectListEnd(self0, token) ==
    LET self == PopPredicate(EndVerb(self0)) IN
    IF token = Punctuation(";")
    THEN Push(self, St("PredicateObjectListPossibleContinuation"))
    ELSE recognize_next(self, token)

\* mutant of PredicateObjectListPossibleContinuation: at most one ';'
\* separates two verbs
PredicateObjectListSingleSemicolon(self, token) ==
    IF token = Punctuation(";")
    THEN error(self, "This is not a valid RDF value")
    ELSE IF IsPunctuation(token, {";", ".", "}", "]", ")"})
    THEN recognize_next(self, token)
    ELSE recognize_next(
             PushAll(self, <<St("PredicateObjectListEnd"), St("ObjectsList"), St("Verb")>>),
             token)

PredicateObjectListPossibleContinuation(self, token) ==
    IF token = Punctuation(";")
    THEN Push(self, St("PredicateObjectListPossibleContinuation"))
    ELSE IF IsPunctuation(token, {";", ".", "}", "]", ")"})
    THEN recognize_next(self, token)
    ELSE recognize_next(
             PushAll(self, <<St("PredicateObjectListEnd"), St("ObjectsList"), St("Verb")>>),
             token)

ObjectsList(self, token) ==
    recognize_next(PushAll(self, <<St("ObjectsListEnd"), St("Path")>>), token)

\* the quad ObjectsListEnd pushes: swapped when the predicate is inverted
ObjectsListQuad(self, subject, predicate, object) ==
    IF predicate.inverted
    THEN quad(self, object, predicate.term, subject)
    ELSE quad(self, subject, predicate.term, object)

\* mutant of ObjectsListEnd: the quad of an object is emitted only where a
\* ',' follows the object
ObjectsListEndLate(self0, token) ==
    IF Len(self0.terms) < 2 \/ self0.predicates = <<>>
    THEN Panic(self0)
    ELSE LET object == Last(self0.terms)
             popped == [self0 EXCEPT !.terms = Front(@)]
             subject == Last(popped.terms)
             predicate == Last(popped.predicates)
         IN IF token = Punctuation(",")
            THEN PushAll(Emit(popped, "ObjectsListEnd",
                              ObjectsListQuad(popped, subject, predicate, object),
                              predicate.inverted),
                         <<St("ObjectsListEnd"), St("Path")>>)
            ELSE recognize_next(popped, token)

ObjectsListEnd(self0, token) ==
    IF Len(self0.terms) < 2 \/ self0.predicates = <<>>
    THEN Panic(self0)
    ELSE LET object == Last(self0.terms)
             popped == [self0 EXCEPT !.terms = Front(@)]
             subject == Last(popped.terms)
             predicate == Last(popped.predicates)
             self == Emit(popped, "ObjectsListEnd",
                          ObjectsListQuad(popped, subject, predicate, object),
                          predicate.inverted)
         IN IF token = Punctuation(",")
            THEN PushAll(self, <<St("ObjectsListEnd"), St("Path")>>)
            ELSE recognize_next(self, token)

Verb(self, token) ==
    IF token = PlainKeyword("a")
    THEN PushPredicate(Framed(BeginVerb(self, "a")), Regular(RDF_TYPE))
    ELSE IF token = PlainKeyword("has")
    THEN PushAll(BeginVerb(self, "has"), <<St("AfterRegularVerb"), St("Path")>>)
    ELSE IF token = PlainKeyword("is")
    THEN PushAll(BeginVerb(self, "is"), <<St("AfterVerbIs"), St("Path")>>)
    ELSE IF token = Punctuation("=")
    THEN PushPredicate(Framed(BeginVerb(self, "=")), Regular(OWL_SAME_AS))
    ELSE IF token = Punctuation("=>")
    THEN PushPredicate(Framed(BeginVerb(self, "=>")), Regular(LOG_IMPLIES))
    ELSE IF token = Punctuation("<=")
    THEN PushPredicate(Framed(BeginVerb(self, "<=")), Inverted(LOG_IMPLIES))
    ELSE IF token = Punctuation("<-")
    THEN PushAll(BeginVerb(self, "<-"), <<St("AfterInvertedVerb"), St("Path")>>)
    ELSE recognize_next(
             PushAll(BeginVerb(self, "expr"), <<St("AfterRegularVerb"), St("Path")>>),
             token)

AfterRegularVerb(self, token) ==
    IF self.terms = <<>>
    THEN Panic(self)
    ELSE recognize_next(
             PushPredicate(Framed([self EXCEPT !.terms = Front(@)]),
                           Regular(Last(self.terms))),
             token)

AfterInvertedVerb(self, token) ==
    IF self.terms = <<>>
    THEN Panic(self)
    ELSE recognize_next(
             PushPredicate(Framed([self EXCEPT !.terms = Front(@)]),
                           Inverted(Last(self.terms))),
             token)

AfterVerbIs(self, token) ==
    IF token = PlainKeyword("of")
    THEN IF self.terms = <<>>
         THEN Panic(self)
         ELSE PushPredicate(Framed([self EXCEPT !.terms = Front(@)]),
                            Inverted(Last(self.terms)))
    ELSE error(self,
           "The keyword 'is' should be followed by a predicate then by the keyword 'of'")

Path(self, token) ==
    recognize_next(PushAll(self, <<St("PathFollowUp"), St("PathItem")>>), token)

PathFollowUp(self, token) ==
    IF token = Punctuation("!")
    THEN PushAll(BeginStep(self), <<PathAfterIndicatorState(FALSE), St("PathItem")>>)
    ELSE IF token = Punctuation("^")
    THEN PushAll(BeginStep(self), <<PathAfterIndicatorState(TRUE), St("PathItem")>>)
    ELSE recognize_next(self, token)

\* mutant of PathQuad: the step is emitted forward whatever the indicator
PathQuadForward(self, is_inverse, previous, predicate, current) ==
    quad(self, previous, predicate, current)

\* the quad PathAfterIndicator pushes for one path step
PathQuad(self, is_inverse, previous, predicate, current) ==
    IF is_inverse
    THEN quad(self, current, predicate, previous)
    ELSE quad(self, previous, predicate, current)

PathAfterIndicator(self0, is_inverse, token) ==
    IF Len(self0.terms) < 2
    THEN Panic(self0)
    ELSE LET predicate == Last(self0.terms)
             previous == self0.terms[Len(self0.terms) - 1]
             current == NewBlankNode(self0)
             popped == Made(TakeBlankNode(
                                [self0 EXCEPT !.terms = SubSeq(@, 1, Len(@) - 2)]),
                            current)
             emitted == Emit(popped, "PathAfterIndicator",
                             PathQuad(popped, is_inverse, previous, predicate, current),
                             is_inverse)
         IN recognize_next(
                Push(PushTerm(EndStep(emitted), current), St("PathFollowUp")), token)

\* '{' in PathItem: a fresh blank node names the formula
OpenFormula(self) ==
    Push([Made(TakeBlankNode(self), NewBlankNode(self)) EXCEPT
              !.contexts = Append(@, NewBlankNode(self)),
              !.formulas = Append(@, NewBlankNode(self)),
              !.formula_nodes = @ \cup {NewBlankNode(self)}],
         St("FormulaContent"))

PathItem(self, token) ==
    CASE token.type = "IriRef" -> PushTerm(self, NamedNode(token.v))
      [] token.type = "PrefixedName" ->
            LET r == resolve_local_name(token.v, token.local,
                                        token.might_be_invalid_iri, self.prefixes)
            IN IF r.ok THEN PushTerm(self, r.term)
               ELSE Unresolved(self, "PathItem", r.err)
      [] token.type = "BlankNodeLabel" ->
            [PushTerm(self, BlankNode(token.v)) EXCEPT
                 !.written = @ \cup {BlankNode(token.v)}]
      [] token.type = "Variable" -> PushTerm(self, Variable(token.v))
      [] token = Punctuation("[") -> Push(self, St("PropertyListMiddle"))
      [] token = Punctuation("(") -> Push(self, St("CollectionBeginning"))
      [] token.type = "String" -> Push(self, LiteralPossibleSuffixState(token.v))
      [] token.type = "Integer" -> PushTerm(self, TypedLiteral(token.v, XSD_INTEGER))
      [] token.type = "Decimal" -> PushTerm(self, TypedLiteral(token.v, XSD_DECIMAL))
      [] token.type = "Double" -> PushTerm(self, TypedLiteral(token.v, XSD_DOUBLE))
      [] token = PlainKeyword("true") -> PushTerm(self, TypedLiteral("true", XSD_BOOLEAN))
      [] token = PlainKeyword("false") -> PushTerm(self, TypedLiteral("false", XSD_BOOLEAN))
      [] token = Punctuation("{") -> OpenFormula(self)
      [] OTHER -> error(self, "This is not a valid RDF value")

\* mutant of PropertyListMiddle: '[ ]' pushes no term
PropertyListMiddleNoTerm(self, token) ==
    IF token = Punctuation("]")
    THEN self
    ELSE IF token = PlainKeyword("id")
    THEN Push(self, St("IriPropertyList"))
    ELSE recognize_next(
             EnterClause(
                 BeginPropertyList(
                     PushAll(PushTerm(Made(TakeBlankNode(self), NewBlankNode(self)),
                                      NewBlankNode(self)),
                             <<St("PropertyListEnd"), St("PredicateObjectList")>>),
                     NewBlankNode(self)),
                 NewBlankNode(self)),
             token)

\* mutant of PropertyListMiddle: the blank node is not taken from the source
PropertyListMiddleShared(self, token) ==
    IF token = Punctuation("]")
    THEN EndPropertyList(
             BeginPropertyList(
                 PushTerm(Made(self, NewBlankNode(self)), NewBlankNode(self)),
                 NewBlankNode(self)),
             NewBlankNode(self), TRUE)
    ELSE IF token = PlainKeyword("id")
    THEN Push(self, St("IriPropertyList"))
    ELSE recognize_next(
             EnterClause(
                 BeginPropertyList(
                     PushAll(PushTerm(Made(self, NewBlankNode(self)), NewBlankNode(self)),
                             <<St("PropertyListEnd"), St("PredicateObjectList")>>),
                     NewBlankNode(self)),
                 NewBlankNode(self)),
             token)

PropertyListMiddle(self, token) ==
    IF token = Punctuation("]")
    THEN EndPropertyList(
             BeginPropertyList(
                 PushTerm(Made(TakeBlankNode(self), NewBlankNode(self)), NewBlankNode(self)),
                 NewBlankNode(self)),
             NewBlankNode(self), TRUE)
    ELSE IF token = PlainKeyword("id")
    THEN Push(self, St("IriPropertyList"))
    ELSE recognize_next(
             EnterClause(
                 BeginPropertyList(
                     PushAll(PushTerm(Made(TakeBlankNode(self), NewBlankNode(self)),
                                      NewBlankNode(self)),
                             <<St("PropertyListEnd"), St("PredicateObjectList")>>),
                     NewBlankNode(self)),
                 NewBlankNode(self)),
             token)

\* mutant of PropertyListEnd: the rule stays on the work stack when the
\* token is not ']'
PropertyListEndStays(self, token) ==
    IF token = Punctuation("]")
    THEN LeaveClause(EndPropertyList(self, CurrentClause(self), FALSE))
    ELSE recognize_next(
             Push(PushError(self, "blank node property lists should end with a ']'"),
                  St("PropertyListEnd")),
             token)

PropertyListEnd(self, token) ==
    IF token = Punctuation("]")
    THEN LeaveClause(EndPropertyList(self, CurrentClause(self), FALSE))
    ELSE recognize_next(
             PushError(LeaveClause(self),
                       "blank node property lists should end with a ']'"),
             token)

\* mutant of IriPropertyList: the name of an undeclared prefix is taken as
\* it is written
IriPropertyListUnchecked(self, token) ==
    IF token.type = "IriRef"
    THEN EnterClause(
             PushAll(PushTerm(self, NamedNode(token.v)),
                     <<St("PropertyListEnd"), St("PredicateObjectList")>>),
             NamedNode(token.v))
    ELSE IF token.type = "PrefixedName"
    THEN LET r == resolve_local_name(token.v, token.local,
                                     token.might_be_invalid_iri, self.prefixes)
             name == IF r.ok THEN r.term ELSE NamedNode(token.v \o ":" \o token.local)
         IN EnterClause(
                PushAll(PushTerm(self, name),
                        <<St("PropertyListEnd"), St("PredicateObjectList")>>),
                name)
    ELSE error(self, "The '[ id' construction should be followed by an IRI")

IriPropertyList(self, token) ==
    IF token.type = "IriRef"
    THEN EnterClause(
             PushAll(PushTerm(self, NamedNode(token.v)),
                     <<St("PropertyListEnd"), St("PredicateObjectList")>>),
             NamedNode(token.v))
    ELSE IF token.type = "PrefixedName"
    THEN LET r == resolve_local_name(token.v, token.local,
                                     token.might_be_invalid_iri, self.prefixes)
         IN IF r.ok
            THEN EnterClause(
                     PushAll(PushTerm(self, r.term),
                             <<St("PropertyListEnd"), St("PredicateObjectList")>>),
                     r.term)
            ELSE Unresolved(self, "IriPropertyList", r.err)
    ELSE error(self, "The '[ id' construction should be followed by an IRI")

CollectionBeginning(self, token) ==
    IF token = Punctuation(")")
    THEN [PushTerm(self, RDF_NIL) EXCEPT
             !.closed_list = [some |-> TRUE, cells |-> <<>>, quads |-> <<>>]]
    ELSE LET root == NewBlankNode(self) IN
         recognize_next(
             PushAll(PushTerm(PushTerm(BeginList(Made(TakeBlankNode(self), root), root), root),
                              root),
                     <<St("CollectionPossibleEnd"), St("Path")>>),
             token)

CollectionPossibleEnd(self0, token) ==
    IF Len(self0.terms) < 2
    THEN Panic(self0)
    ELSE LET value == Last(self0.terms)
             old == self0.terms[Len(self0.terms) - 1]
             popped == [self0 EXCEPT !.terms = SubSeq(@, 1, Len(@) - 2)]
             first == Emit(popped, "CollectionPossibleEnd",
                           quad(popped, old, RDF_FIRST, value), FALSE)
         IN IF token = Punctuation(")")
            THEN EndList(
                     GrowList(
                         Emit(first, "CollectionPossibleEnd",
                              quad(first, old, RDF_REST, RDF_NIL), FALSE),
                         <<quad(popped, old, RDF_FIRST, value),
                           quad(first, old, RDF_REST, RDF_NIL)>>,
                         <<>>))
            ELSE LET new == NewBlankNode(first)
                     rest == Emit(Made(TakeBlankNode(first), new), "CollectionPossibleEnd",
                                  quad(first, old, RDF_REST, new), FALSE)
                 IN recognize_next(
                        PushAll(PushTerm(GrowList(rest,
                                             <<quad(popped, old, RDF_FIRST, value),
                                               quad(first, old, RDF_REST, new)>>,
                                             <<new>>),
                                         new),
                                <<St("CollectionPossibleEnd"), St("Path")>>),
                        token)

LiteralPossibleSuffix(self, value, token) ==
    IF token.type = "LangTag"
    THEN PushTerm(self, LanguageTaggedLiteral(value, ToAsciiLowercase(token.v)))
    ELSE IF token = Punctuation("^^")
    THEN Push(self, LiteralExpectDatatypeState(value))
    ELSE recognize_next(PushTerm(self, SimpleLiteral(value)), token)

\* mutant of LiteralExpectDatatype: a token that is no datatype ends the
\* literal as a simple literal
LiteralExpectDatatypeLenient(self, value, token) ==
    IF token.type = "IriRef"
    THEN PushTerm(self, TypedLiteral(value, token.v))
    ELSE IF token.type = "PrefixedName"
    THEN LET r == resolve_local_name(token.v, token.local,
                                     token.might_be_invalid_iri, self.prefixes)
         IN IF r.ok THEN PushTerm(self, TypedLiteral(value, r.term.v))
            ELSE PushTerm(self, SimpleLiteral(value))
    ELSE recognize_next(PushTerm(self, SimpleLiteral(value)), token)

LiteralExpectDatatype(self, value, token) ==
    IF token.type = "IriRef"
    THEN PushTerm(self, TypedLiteral(value, token.v))
    ELSE IF token.type = "PrefixedName"
    THEN LET r == resolve_local_name(token.v, token.local,
                                     token.might_be_invalid_iri, self.prefixes)
         IN IF r.ok THEN PushTerm(self, TypedLiteral(value, r.term.v))
            ELSE Unresolved(self, "LiteralExpectDatatype", r.err)
    ELSE recognize_next(error(self, "Expecting a datatype IRI after '^^"), token)

\* mutant of CloseFormula: the context is read with last() and stays open
CloseFormulaKeepContext(self) ==
    IF self.contexts = <<>>
    THEN Panic(self)
    ELSE [self EXCEPT !.terms = Append(@, Last(self.contexts)),
                      !.value = CurrentFormula(self),
                      !.closed = Last(self.contexts)]

\* mutant of CloseFormula: the base IRI and the prefixes of the parser's
\* configuration are put back when the formula ends
CloseFormulaScoped(self) ==
    IF self.contexts = <<>>
    THEN Panic(self)
    ELSE [self EXCEPT !.terms = Append(@, Last(self.contexts)),
                      !.value = CurrentFormula(self),
                      !.contexts = Front(@),
                      !.closed = Last(self.contexts),
                      !.base_iri = NoBase,
                      !.prefixes = NoPrefixes]

\* '}' in FormulaContent and FormulaContentExpectDot:
\* self.terms.push(self.contexts.pop().unwrap().into())
CloseFormula(self) ==
    IF self.contexts = <<>>
    THEN Panic(self)
    ELSE [self EXCEPT !.terms = Append(@, Last(self.contexts)),
                      !.value = CurrentFormula(self),
                      !.contexts = Front(@),
                      !.closed = Last(self.contexts)]

FormulaContent(self, token) ==
    IF token = Punctuation("}")
    THEN CloseFormula(self)
    ELSE IF token.type = "PlainKeyword" /\ EqIgnoreAsciiCase(token.v, "base")
    THEN PushAll(Directive(self, token),
                 <<St("FormulaContent"), St("BaseExpectIri")>>)
    ELSE IF token.type = "PlainKeyword" /\ EqIgnoreAsciiCase(token.v, "prefix")
    THEN PushAll(Directive(self, token),
                 <<St("FormulaContent"), St("PrefixExpectPrefix")>>)
    ELSE IF token = LangTag("prefix")
    THEN PushAll(Directive(self, token),
                 <<St("FormulaContentExpectDot"), St("PrefixExpectPrefix")>>)
    ELSE IF token = LangTag("base")
    THEN PushAll(Directive(self, token),
                 <<St("FormulaContentExpectDot"), St("BaseExpectIri")>>)
    ELSE recognize_next(
             PushAll(self, <<St("FormulaContentExpectDot"), St("Triples")>>), token)

FormulaContentExpectDot(self, token) ==
    IF token = Punctuation("}")
    THEN CloseFormula(self)
    ELSE IF token = Punctuation(".")
    THEN Push(self, St("FormulaContent"))
    ELSE recognize_next(
             Push(PushError(self, "A dot is expected at the end of N3 statements"),
                  St("FormulaContent")),
             token)

\* mutant of EmptyStack: a '}' resumes the parse as a '.' does, and the
\* resumed parse is outside every formula
EmptyStackClosing(self, token) ==
    IF token = Punctuation(".")
    THEN [Push(self, St("N3Doc")) EXCEPT !.resumed = TRUE]
    ELSE IF token = Punctuation("}")
    THEN [Push(self, St("N3Doc")) EXCEPT !.resumed = TRUE, !.contexts = <<>>]
    ELSE self

\* the branch of recognize_next for an empty work stack: '.' pushes N3Doc,
\* any other token is dropped
EmptyStack(self, token) ==
    IF token = Punctuation(".")
    THEN [Push(self, St("N3Doc")) EXCEPT !.resumed = TRUE]
    ELSE self

\* RuleRecognizer::recognize_next: pop the top rule and run its transition
recognize_next(self0, token) ==
    IF self0.panicked \/ self0.dispatched >= Fuel
    THEN self0
    ELSE IF self0.stack # <<>>
    THEN LET rule == Last(self0.stack)
             self == [self0 EXCEPT !.stack = Front(@), !.dispatched = @ + 1]
         IN CASE rule.state = "N3Doc" -> N3Doc(self, token)
              [] rule.state = "N3DocExpectDot" -> N3DocExpectDot(self, token)
              [] rule.state = "BaseExpectIri" -> BaseExpectIri(self, token)
              [] rule.state = "PrefixExpectPrefix" -> PrefixExpectPrefix(self, token)
              [] rule.state = "PrefixExpectIri" -> PrefixExpectIri(self, rule.name, token)
              [] rule.state = "Triples" -> Triples(self, token)
              [] rule.state = "TriplesMiddle" -> TriplesMiddle(self, token)
              [] rule.state = "TriplesEnd" -> TriplesEnd(self, token)
              [] rule.state = "PredicateObjectList" -> PredicateObjectList(self, token)
              [] rule.state = "PredicateObjectListEnd" ->
                    PredicateObjectListEnd(self, token)
              [] rule.state = "PredicateObjectListPossibleContinuation" ->
                    PredicateObjectListPossibleContinuation(self, token)
              [] rule.state = "ObjectsList" -> ObjectsList(self, token)
              [] rule.state = "ObjectsListEnd" -> ObjectsListEnd(self, token)
              [] rule.state = "Verb" -> Verb(self, token)
              [] rule.state = "AfterRegularVerb" -> AfterRegularVerb(self, token)
              [] rule.state = "AfterInvertedVerb" -> AfterInvertedVerb(self, token)
              [] rule.state = "AfterVerbIs" -> AfterVerbIs(self, token)
              [] rule.state = "Path" -> Path(self, token)
              [] rule.state = "PathFollowUp" -> PathFollowUp(self, token)
              [] rule.state = "PathAfterIndicator" ->
                    PathAfterIndicator(self, rule.is_inverse, token)
              [] rule.state = "PathItem" -> PathItem(self, token)
              [] rule.state = "PropertyListMiddle" -> PropertyListMiddle(self, token)
              [] rule.state = "PropertyListEnd" -> PropertyListEnd(self, token)
              [] rule.state = "IriPropertyList" -> IriPropertyList(self, token)
              [] rule.state = "CollectionBeginning" -> CollectionBeginning(self, token)
              [] rule.state = "CollectionPossibleEnd" ->
                    CollectionPossibleEnd(self, token)
              [] rule.state = "LiteralPossibleSuffix" ->
                    LiteralPossibleSuffix(self, rule.value, token)
              [] rule.state = "LiteralExpectDatatype" ->
                    LiteralExpectDatatype(self, rule.value, token)
              [] rule.state = "FormulaContent" -> FormulaContent(self, token)
              [] rule.state = "FormulaContentExpectDot" ->
                    FormulaContentExpectDot(self, token)
    ELSE EmptyStack([self0 EXCEPT !.dispatched = @ + 1], token)

\* mutant of recognize_end: the end of the input is an error whenever rules
\* are left on the work stack
recognize_end_strict(self) ==
    IF self.stack = <<>>
    THEN self
    ELSE PushError(self, "Unexpected end")

\* RuleRecognizer::recognize_end
recognize_end(self) ==
    IF self.stack = <<>> \/ self.stack = <<St("N3Doc")>>
    THEN self
    ELSE PushError(self, "Unexpected end")

\* N3Recognizer::new_parser: the recognizer a parse starts from
new_parser(base_iri, prefixes) ==
    [stack |-> <<St("N3Doc")>>,
     base_iri |-> base_iri,
     prefixes |-> prefixes,
     terms |-> <<>>,
     predicates |-> <<>>,
     contexts |-> <<>>,
     results |-> <<>>,
     errors |-> <<>>,
     bnodes |-> 0,
     panicked |-> FALSE,
     clauses |-> <<>>,
     formulas |-> <<>>,
     notes |-> <<>>,
     accepted_dot |-> FALSE,
     closed |-> NoTerm,
     failed |-> FALSE,
     formula_nodes |-> {},
     awaiting_dot |-> FALSE,
     resumed |-> FALSE,
     directive |-> "",
     declared |-> "",
     followed |-> "",
     directive_depth |-> -1,
     lists |-> <<>>,
     closed_list |-> NoList,
     steps |-> <<>>,
     made |-> <<>>,
     all_made |-> {},
     written |-> {},
     property_nodes |-> {},
     closed_property |-> NoPropertyList,
     value |-> NoTerm,
     verb_forms |-> <<>>,
     frames |-> <<>>,
     bare |-> {},
     failure |-> "",
     unresolved |-> "",
     dispatched |-> 0]

(***************************************************************************)
(* The lexer's part in a token: an IRI reference is resolved against the   *)
(* live base IRI (lexer_options.base_iri) before the recognizer sees it.   *)
(***************************************************************************)
\* the relative IRI references of the alphabets; any other IRI is absolute
RelativeIris == {"r"}

\* N3Lexer on one lexeme: the token, or a lexical error
Lex(raw, base_iri) ==
    IF raw.type = "IriRef" /\ raw.v \in RelativeIris
    THEN IF base_iri = NoBase
         THEN [ok |-> FALSE, token |-> raw]
         ELSE [ok |-> TRUE, token |-> IriRef(base_iri \o raw.v)]
    ELSE [ok |-> TRUE, token |-> raw]

(***************************************************************************)
(* The lexemes a parse is fed, grouped in alphabets: one parse draws its   *)
(* tokens from one alphabet.                                               *)
(***************************************************************************)
IriA == IriRef("http://e/a")
IriB == IriRef("http://e/b")
Dot == Punctuation(".")

\* statements, formulas and an inverted verb
FormulaAlphabet ==
    {IriA, IriB, Dot, Punctuation("{"), Punctuation("}"), Punctuation("<=")}

\* literals and paths
PathAlphabet ==
    {IriA, String("s"), Dot, Punctuation("!"), Punctuation("^")}

\* literals and collections
CollectionAlphabet ==
    {IriA, String("s"), Dot, Punctuation("("), Punctuation(")")}

\* a relative IRI reference and the base directive
BaseAlphabet ==
    {IriRef("r"), IriA, Dot, LangTag("base"), IriRef("http://x/")}

\* both forms of the base directive, at document level and in formulas
DirectiveAlphabet ==
    {LangTag("base"), PlainKeyword("BASE"), IriRef("http://x/"), IriRef("r"),
     Dot, Punctuation("{"), Punctuation("}")}

\* both forms of the prefix directive, at document level and in formulas,
\* and a relative IRI reference the lexer rejects for want of a base
PrefixAlphabet ==
    {LangTag("prefix"), PlainKeyword("PREFIX"), PrefixedName("p", "", FALSE),
     IriRef("http://x/"), PrefixedName("p", "a", FALSE), IriRef("r"),
     Dot, Punctuation("{"), Punctuation("}")}

\* collections and formulas inside one another
NestedAlphabet ==
    {IriA, Punctuation("("), Punctuation(")"), Punctuation("{"), Punctuation("}")}

\* property lists whose verbs and objects may be formulas
PropertyFormulaAlphabet ==
    {IriA, Punctuation("["), Punctuation("]"), Punctuation("{"), Punctuation("}")}

\* predicate-object lists of a statement
SemicolonAlphabet ==
    {IriA, Punctuation(";"), Dot}

\* the alphabets of the parses of MaxTokens tokens
DocumentAlphabets ==
    {FormulaAlphabet, PathAlphabet, CollectionAlphabet, BaseAlphabet,
     PropertyFormulaAlphabet, SemicolonAlphabet}

\* paths whose items may be formulas
PathFormulaAlphabet ==
    {IriA, IriB, Punctuation("!"), Punctuation("^"), Punctuation("{"),
     Punctuation("}")}

\* blank nodes written in the input next to those the parser makes
BlankAlphabet ==
    {BlankNodeLabel("b"), Punctuation("["), Punctuation("]"), Punctuation("("),
     Punctuation(")"), Punctuation("!")}

\* the verbs that are one token
VerbAlphabet ==
    {IriA, PlainKeyword("a"), Punctuation("="), Punctuation("=>"),
     Punctuation("<="), Punctuation(";")}

\* the verbs that are written around an expression
KeywordVerbAlphabet ==
    {IriA, PlainKeyword("has"), PlainKeyword("is"), PlainKeyword("of"),
     Punctuation("<-"), Punctuation(";")}

\* predicate-object lists in property lists and formulas
SemicolonNestedAlphabet ==
    {IriA, Punctuation(";"), Punctuation("["), Punctuation("]"),
     Punctuation("{"), Punctuation("}")}

\* the verb 'is ... of' in statements and formulas
IsOfAlphabet ==
    {IriA, PlainKeyword("is"), PlainKeyword("of"), Punctuation("{"),
     Punctuation("}"), Dot}

\* prefixed names of a declared and of an undeclared prefix, as path items,
\* as datatypes and after '[ id'
PrefixedAlphabet ==
    {String("s"), Punctuation("^^"), PrefixedName("p", "a", FALSE),
     PrefixedName("q", "a", FALSE), Punctuation("["), PlainKeyword("id"),
     Punctuation("!"), Dot}

\* the alphabets of the parses of MaxStatement tokens
StatementAlphabets ==
    {DirectiveAlphabet, PrefixAlphabet, NestedAlphabet, PathFormulaAlphabet,
     BlankAlphabet, VerbAlphabet, KeywordVerbAlphabet, SemicolonNestedAlphabet,
     IsOfAlphabet, PrefixedAlphabet}

\* the alphabets of the parses started from the configuration with a prefix
ConfiguredAlphabets == {PrefixedAlphabet}

Alphabets == DocumentAlphabets \cup StatementAlphabets

\* a statement whose object is a collection
ListHistoryAlphabet ==
    {IriA, Punctuation("("), Punctuation(")"), Dot}

\* property lists
PropertyHistoryAlphabet ==
    {IriA, Punctuation("["), Punctuation("]"), Dot}

\* path steps
PathHistoryAlphabet ==
    {IriA, Punctuation("!"), Dot}

\* formulas
FormulaHistoryAlphabet ==
    {IriA, Punctuation("{"), Punctuation("}"), Dot}

\* a relative IRI reference without a base IRI
RelativeHistoryAlphabet ==
    {IriRef("r"), IriA, Dot}

\* the directives, with a relative IRI reference and a prefixed name
ParsesAlphabet ==
    {PlainKeyword("BASE"), PlainKeyword("PREFIX"), PrefixedName("p", "", FALSE),
     IriRef("r")}

\* the alphabets of the parses that keep their history
HistoryAlphabets ==
    {ListHistoryAlphabet, PropertyHistoryAlphabet, PathHistoryAlphabet,
     FormulaHistoryAlphabet, RelativeHistoryAlphabet}

(***************************************************************************)
(* The lexer over bytes.  A byte is a one-character string and the buffer  *)
(* is the sequence of the bytes not yet consumed.  The lexer returns a     *)
(* token with the number of bytes it takes, asks for more input when the   *)
(* buffer ends where the token could still go on, or reports an error.     *)
(***************************************************************************)
Take(bytes, n) == SubSeq(bytes, 1, n)

Drop(bytes, n) == SubSeq(bytes, n + 1, Len(bytes))

RECURSIVE Concat(_)
\* the string the bytes spell
Concat(bytes) ==
    IF bytes = <<>> THEN "" ELSE Head(bytes) \o Concat(Tail(bytes))

\* the first position from `from` on whose byte is in `set`; 0 when none is
Find(bytes, from, set) ==
    LET hits == {i \in from..Len(bytes) : bytes[i] \in set} IN
    IF hits = {} THEN 0 ELSE CHOOSE i \in hits : \A j \in hits : i <= j

\* the length of the run of bytes of `set` that starts at `from`
Run(bytes, from, set) ==
    LET stops == {i \in from..Len(bytes) : bytes[i] \notin set} IN
    IF stops = {} THEN Len(bytes) - from + 1
    ELSE (CHOOSE i \in stops : \A j \in stops : i <= j) - from

Whitespace == {" ", "\n"}

Letters == {"a", "b", "p", "s", "x"}

IriBytes == Letters \cup {":", "#"}

SingleBytePunctuation == {".", "{", "}", "(", ")", "[", "]", ",", ";", "!"}

NoToken == Tok("None", "", "", FALSE)

Token(token, consumed) ==
    [kind |-> "token", token |-> token, consumed |-> consumed]

NeedMore == [kind |-> "need", token |-> NoToken, consumed |-> 0]

LexError(consumed) ==
    [kind |-> "error", token |-> NoToken, consumed |-> consumed]

\* the buffer ends inside a token: more input is needed, unless the input
\* has ended, which makes the unfinished token a lexical error
Unfinished(data, is_ending) ==
    IF is_ending THEN LexError(Len(data)) ELSE NeedMore

\* '<' ... '>': an IRI reference, resolved against the base IRI if relative
recognize_iri(data, is_ending, base_iri) ==
    LET close == Find(data, 2, {">"}) IN
    IF close = 0
    THEN Unfinished(data, is_ending)
    ELSE LET body == SubSeq(data, 2, close - 1) IN
         IF \E i \in 1..Len(body) : body[i] \notin IriBytes
         THEN LexError(close)
         ELSE IF \E i \in 1..Len(body) : body[i] = ":"
         THEN Token(IriRef(Concat(body)), close)
         ELSE IF base_iri = NoBase
         THEN LexError(close)
         ELSE Token(IriRef(base_iri \o Concat(body)), close)

\* a punctuation sign that is also the beginning of a longer one
recognize_long_punctuation(data, is_ending, short, second, long) ==
    IF Len(data) = 1
    THEN IF is_ending THEN Token(Punctuation(short), 1) ELSE NeedMore
    ELSE IF data[2] = second
    THEN Token(Punctuation(long), 2)
    ELSE Token(Punctuation(short), 1)

\* '"' ... '"'
recognize_string(data, is_ending) ==
    LET close == Find(data, 2, {"\""}) IN
    IF close = 0
    THEN Unfinished(data, is_ending)
    ELSE Token(String(Concat(SubSeq(data, 2, close - 1))), close)

\* '@' followed by letters
recognize_lang_tag(data, is_ending) ==
    LET n == Run(data, 2, Letters) IN
    IF 1 + n = Len(data) /\ ~is_ending
    THEN NeedMore
    ELSE IF n = 0
    THEN LexError(1)
    ELSE Token(LangTag(Concat(SubSeq(data, 2, 1 + n))), 1 + n)

\* letters, then possibly ':' and letters: a keyword or a prefixed name
recognize_pname_or_keyword(data, is_ending) ==
    LET n == Run(data, 1, Letters) IN
    IF n = Len(data)
    THEN IF is_ending THEN Token(PlainKeyword(Concat(data)), n) ELSE NeedMore
    ELSE IF data[n + 1] # ":"
    THEN Token(PlainKeyword(Concat(Take(data, n))), n)
    ELSE LET m == Run(data, n + 2, Letters) IN
         IF n + 1 + m = Len(data) /\ ~is_ending
         THEN NeedMore
         ELSE Token(PrefixedName(Concat(Take(data, n)),
                                 Concat(SubSeq(data, n + 2, n + 1 + m)),
                                 FALSE),
                    n + 1 + m)

\* N3Lexer on a buffer that begins with the first byte of a token
recognize_next_token(data, is_ending, base_iri) ==
    LET c == Head(data) IN
    CASE c = "<" ->
            IF Len(data) = 1
            THEN Unfinished(data, is_ending)
            ELSE IF data[2] = "="
            THEN Token(Punctuation("<="), 2)
            ELSE IF data[2] = "-"
            THEN Token(Punctuation("<-"), 2)
            ELSE recognize_iri(data, is_ending, base_iri)
      [] c = "=" -> recognize_long_punctuation(data, is_ending, "=", ">", "=>")
      [] c = "^" -> recognize_long_punctuation(data, is_ending, "^", "^", "^^")
      [] c \in SingleBytePunctuation -> Token(Punctuation(c), 1)
      [] c = "\"" -> recognize_string(data, is_ending)
      [] c = "@" -> recognize_lang_tag(data, is_ending)
      [] c \in Letters \cup {":"} -> recognize_pname_or_keyword(data, is_ending)
      [] OTHER -> LexError(1)

RECURSIVE skip_whitespaces_and_comments(_, _)
\* white space and '#' line comments before a token: the bytes left, and
\* whether a comment is still open at the end of the buffer
skip_whitespaces_and_comments(data, is_ending) ==
    IF data = <<>>
    THEN [need |-> FALSE, rest |-> data]
    ELSE IF Head(data) \in Whitespace
    THEN skip_whitespaces_and_comments(Tail(data), is_ending)
    ELSE IF Head(data) = "#"
    THEN LET eol == Find(data, 1, {"\n"}) IN
         IF eol = 0
         THEN IF is_ending
              THEN [need |-> FALSE, rest |-> <<>>]
              ELSE [need |-> TRUE, rest |-> data]
         ELSE skip_whitespaces_and_comments(Drop(data, eol), is_ending)
    ELSE [need |-> FALSE, rest |-> data]

\* Lexer::read_next: the next token of the buffer and the buffer after it
Lexer_read_next(data, is_ending, base_iri) ==
    LET s == skip_whitespaces_and_comments(data, is_ending) IN
    IF s.need
    THEN [kind |-> "need", token |-> NoToken, rest |-> s.rest]
    ELSE IF s.rest = <<>>
    THEN [kind |-> IF is_ending THEN "end" ELSE "need",
          token |-> NoToken, rest |-> s.rest]
    ELSE LET t == recognize_next_token(s.rest, is_ending, base_iri) IN
         IF t.kind = "need"
         THEN [kind |-> "need", token |-> NoToken, rest |-> s.rest]
         ELSE [kind |-> t.kind, token |-> t.token,
               rest |-> Drop(s.rest, t.consumed)]

(***************************************************************************)
(* State.                                                                  *)
(***************************************************************************)
VARIABLES
    parser,        \* N3Parser: the configuration [base, prefixes]
    alphabet,      \* the lexemes of this parse
    stack,         \* N3Recognizer.stack
    base_iri,      \* N3Recognizer.lexer_options.base_iri
    prefixes,      \* N3Recognizer.prefixes
    terms,         \* N3Recognizer.terms
    predicates,    \* N3Recognizer.predicates
    contexts,      \* N3Recognizer.contexts
    results,       \* quads pushed by the last token application
    errors,        \* errors pushed by the last token application
    bnodes,        \* blank nodes handed out by BlankNode::default()
    panicked,      \* an unwrap() of None was reached
    token,         \* the token applied last
    ntok,          \* number of tokens applied so far
    is_end,        \* the parse is finished
    clauses,       \* history: see N3Recognizer above
    formulas,      \* history
    notes,         \* history
    accepted_dot,  \* history
    closed,        \* history
    failed,        \* history
    formula_nodes, \* history
    awaiting_dot,  \* history: an error was recorded and no '.' token has come since
    resumed,       \* history: a '.' has set the emptied work stack to [N3Doc]
    directive,     \* history: the form ('@' or 'sparql') of the directive being read
    declared,      \* history: the form of the directive this token completed
    followed,      \* history: the form of the directive the token before this one completed
    directive_depth, \* history: the number of contexts open where the last directive was completed
    lists,         \* history: the collections being read, innermost last
    closed_list,   \* history: the collection this token closed
    steps,         \* history: the terms the path steps being read start from, innermost last
    made,          \* history: the blank nodes BlankNode::default() made for this token
    all_made,      \* history: the blank nodes BlankNode::default() has made so far
    written,       \* history: the blank nodes whose label the input has written so far
    property_nodes, \* history: the blank nodes made for '[' so far
    closed_property, \* history: the property list this token has closed
    value,         \* history: the term the expression item read last stands for
    verb_forms,    \* history: the forms of the verbs whose predicate is not pushed yet
    frames,        \* history: the predicate frames of the verbs whose object list is open
    bare,          \* history: the subjects of the triples clauses that had no predicate-object list
    failure,       \* history: the message of the last error N3Recognizer::error recorded
    unresolved,    \* history: the rule a prefixed name of this token did not resolve in
    dispatched,    \* history: the number of transitions run for this token
    error_seen,    \* history: an error was recorded earlier in this parse
    mode,          \* the facade that drives this parse
    input,         \* the bytes of the source
    offset,        \* number of bytes of the source handed to the parser
    data,          \* Lexer: the bytes buffered and not yet consumed
    is_ending,     \* Lexer: the end of the input has been signalled
    done,          \* Parser: recognize_end has taken the recognizer
    out,           \* what read_next / next has returned so far
    split,         \* history: the lexer asked for more inside a token
    sibling        \* another parse started from the same N3Parser

vars ==
    <<parser, alphabet, stack, base_iri, prefixes, terms, predicates, contexts,
      results, errors, bnodes, panicked, token, ntok, is_end, clauses, formulas, notes,
      accepted_dot, closed, failed, formula_nodes, awaiting_dot, resumed,
      directive, declared, followed, directive_depth, lists, closed_list, steps,
      made, all_made, written, property_nodes, closed_property, value,
      verb_forms, frames, error_seen,
      bare, failure, unresolved, dispatched,
      mode, input, offset, data, is_ending, done, out, split, sibling>>

\* the variables of the byte-fed facades
feed == <<mode, input, offset, data, is_ending, done, out, split>>

\* the recognizer value the variables hold
Self ==
    [stack |-> stack, base_iri |-> base_iri, prefixes |-> prefixes,
     terms |-> terms, predicates |-> predicates, contexts |-> contexts,
     results |-> results, errors |-> errors, bnodes |-> bnodes,
     panicked |-> panicked, clauses |-> clauses, formulas |-> formulas,
     notes |-> notes, accepted_dot |-> accepted_dot, closed |-> closed,
     failed |-> failed, formula_nodes |-> formula_nodes,
     awaiting_dot |-> awaiting_dot,
     resumed |-> resumed,
     directive |-> directive,
     declared |-> declared,
     followed |-> followed,
     directive_depth |-> directive_depth,
     lists |-> lists,
     closed_list |-> closed_list,
     steps |-> steps,
     made |-> made,
     all_made |-> all_made,
     written |-> written,
     property_nodes |-> property_nodes,
     closed_property |-> closed_property,
     value |-> value,
     verb_forms |-> verb_forms,
     frames |-> frames,
     bare |-> bare,
     failure |-> failure,
     unresolved |-> unresolved,
     dispatched |-> dispatched]

\* the variables hold the recognizer r
Holds(r) ==
    /\ stack' = r.stack
    /\ base_iri' = r.base_iri
    /\ prefixes' = r.prefixes
    /\ terms' = r.terms
    /\ predicates' = r.predicates
    /\ contexts' = r.contexts
    /\ results' = r.results
    /\ errors' = r.errors
    /\ bnodes' = r.bnodes
    /\ panicked' = r.panicked
    /\ clauses' = r.clauses
    /\ formulas' = r.formulas
    /\ notes' = r.notes
    /\ accepted_dot' = r.accepted_dot
    /\ closed' = r.closed
    /\ failed' = r.failed
    /\ formula_nodes' = r.formula_nodes
    /\ awaiting_dot' = r.awaiting_dot
    /\ resumed' = r.resumed
    /\ directive' = r.directive
    /\ declared' = r.declared
    /\ followed' = r.followed
    /\ directive_depth' = r.directive_depth
    /\ lists' = r.lists
    /\ closed_list' = r.closed_list
    /\ steps' = r.steps
    /\ made' = r.made
    /\ all_made' = r.all_made
    /\ written' = r.written
    /\ property_nodes' = r.property_nodes
    /\ closed_property' = r.closed_property
    /\ value' = r.value
    /\ verb_forms' = r.verb_forms
    /\ frames' = r.frames
    /\ bare' = r.bare
    /\ failure' = r.failure
    /\ unresolved' = r.unresolved
    /\ dispatched' = r.dispatched

\* the recognizer after a step of its parse
Store(r) ==
    /\ Holds(r)
    /\ error_seen' = (error_seen \/ r.errors # <<>>)

\* Parser::read_next hands results and errors out before it lexes the next token
Drained(self) ==
    [self EXCEPT !.results = <<>>, !.errors = <<>>, !.notes = <<>>,
                 !.accepted_dot = FALSE, !.closed = NoTerm, !.failed = FALSE,
                 !.declared = "",
                 !.followed = self.declared,
                 !.closed_list = NoList,
                 !.made = <<>>,
                 !.closed_property = NoPropertyList,
                 !.unresolved = "",
                 !.dispatched = 0]

\* history: a '}' token closes the innermost formula still open; an error
\* opens the wait for a '.', which a '.' token without error ends
AfterToken(self, tok) ==
    [self EXCEPT
        !.formulas = IF tok = Punctuation("}") /\ @ # <<>> THEN Front(@) ELSE @,
        !.awaiting_dot = IF self.errors # <<>> THEN TRUE
                         ELSE IF tok = Punctuation(".") THEN FALSE
                         ELSE @]

\* one token through the recognizer
Applied(self, tok) == AfterToken(recognize_next(Drained(self), tok), tok)

\* a configuration with a base IRI and a prefix, and the default one
Configured == [base |-> "x:", prefixes |-> Insert(NoPrefixes, "p", "x:p#")]

Default == [base |-> NoBase, prefixes |-> NoPrefixes]

\* the configurations a parse is started from
Parsers == {Default, Configured}

\* the configuration the parses over an alphabet are started from
Starts(p, a) == p = IF a \in ConfiguredAlphabets THEN Configured ELSE Default

\* mutant of parse: the configuration is not handed to the parse
parse_unconfigured(p) == new_parser(NoBase, NoPrefixes)

\* N3Parser::parse
parse(p) == new_parser(p.base, p.prefixes)

\* a parse as a value, with the position of its caller: the parse the
\* variables hold, and the one N3Parser::parse returns
ThisParse ==
    [rr |-> Self, token |-> token, ntok |-> ntok, is_end |-> is_end,
     error_seen |-> error_seen]

Fresh(p) ==
    [rr |-> parse(p), token |-> NoToken, ntok |-> 0, is_end |-> FALSE,
     error_seen |-> FALSE]

\* the recognizer the variables hold at the beginning of a parse
StartsFrom(r) ==
    /\ stack = r.stack
    /\ base_iri = r.base_iri
    /\ prefixes = r.prefixes
    /\ terms = r.terms
    /\ predicates = r.predicates
    /\ contexts = r.contexts
    /\ results = r.results
    /\ errors = r.errors
    /\ bnodes = r.bnodes
    /\ panicked = r.panicked
    /\ clauses = r.clauses
    /\ formulas = r.formulas
    /\ notes = r.notes
    /\ accepted_dot = r.accepted_dot
    /\ closed = r.closed
    /\ failed = r.failed
    /\ formula_nodes = r.formula_nodes
    /\ awaiting_dot = r.awaiting_dot
    /\ resumed = r.resumed
    /\ directive = r.directive
    /\ declared = r.declared
    /\ followed = r.followed
    /\ directive_depth = r.directive_depth
    /\ lists = r.lists
    /\ closed_list = r.closed_list
    /\ steps = r.steps
    /\ made = r.made
    /\ all_made = r.all_made
    /\ written = r.written
    /\ property_nodes = r.property_nodes
    /\ closed_property = r.closed_property
    /\ value = r.value
    /\ verb_forms = r.verb_forms
    /\ frames = r.frames
    /\ bare = r.bare
    /\ failure = r.failure
    /\ unresolved = r.unresolved
    /\ dispatched = r.dispatched
    /\ error_seen = FALSE

Init ==
    /\ parser \in Parsers
    /\ alphabet \in Alphabets
    /\ Starts(parser, alphabet)
    /\ token = NoToken
    /\ ntok = 0
    /\ is_end = FALSE
    /\ StartsFrom(parse(parser))
    /\ mode = "tokens"
    /\ input = <<>>
    /\ offset = 0
    /\ data = <<>>
    /\ is_ending = FALSE
    /\ done = FALSE
    /\ out = <<>>
    /\ split = FALSE
    /\ sibling = Fresh(Default)

\* the number of tokens the parse is fed
Budget ==
    IF mode = "history" THEN MaxHistory
    ELSE IF mode = "parses" THEN MaxParse
    ELSE IF alphabet \in StatementAlphabets THEN MaxStatement
    ELSE MaxTokens

\* the quads of one token application with their notes, in the order of
\* results
Pairs(quads, their_notes) ==
    [i \in 1..Len(quads) |-> [quad |-> quads[i], note |-> their_notes[i]]]

\* a parse that keeps its history appends the token to `input` and what
\* the token emitted to `out`, as the caller of read_next receives it
Recorded ==
    /\ IF mode = "history"
       THEN /\ input' = Append(input, token')
            /\ out' = out \o Pairs(results', notes')
       ELSE UNCHANGED <<input, out>>
    /\ UNCHANGED <<mode, offset, data, is_ending, done, split, sibling>>

\* Parser::read_next: the lexer yields a token and the recognizer takes it
RecognizeNext ==
    /\ ~is_end
    /\ ~panicked
    /\ ntok < Budget
    /\ \E raw \in alphabet :
         LET lexed == Lex(raw, base_iri) IN
         /\ lexed.ok
         /\ Store(Applied(Self, lexed.token))
         /\ token' = lexed.token
    /\ ntok' = ntok + 1
    /\ Recorded
    /\ UNCHANGED <<parser, alphabet, is_end>>

\* Parser::read_next: the lexer rejects the input at its position; the
\* recognizer goes to its error recovery state, the lexical error is
\* returned and the parser stops
LexerError ==
    /\ ~is_end
    /\ ~panicked
    /\ ntok < Budget
    /\ \E raw \in alphabet : ~Lex(raw, base_iri).ok
    /\ Store([error_recovery_state(Drained(Self)) EXCEPT
                 !.errors = <<"lexical error">>])
    /\ token' = NoToken
    /\ ntok' = ntok + 1
    /\ is_end' = TRUE
    /\ Recorded
    /\ UNCHANGED <<parser, alphabet>>

\* Parser::end and the read_next that follows it: recognize_end
RecognizeEnd ==
    /\ ~is_end
    /\ ~panicked
    /\ Store(recognize_end(Drained(Self)))
    /\ token' = NoToken
    /\ is_end' = TRUE
    /\ Recorded
    /\ UNCHANGED <<parser, alphabet, ntok>>

Next ==
    \/ RecognizeNext
    \/ LexerError
    \/ RecognizeEnd

Spec == Init /\ [][Next]_vars

\* the same parse, keeping the tokens fed and the quads emitted so far
InitHistory ==
    /\ parser \in Parsers
    /\ alphabet \in HistoryAlphabets
    /\ Starts(parser, alphabet)
    /\ token = NoToken
    /\ ntok = 0
    /\ is_end = FALSE
    /\ StartsFrom(parse(parser))
    /\ mode = "history"
    /\ input = <<>>
    /\ offset = 0
    /\ data = <<>>
    /\ is_ending = FALSE
    /\ done = FALSE
    /\ out = <<>>
    /\ split = FALSE
    /\ sibling = Fresh(Default)

SpecHistory == InitHistory /\ [][Next]_vars

\* two parses started from the same N3Parser; the variables hold the one
\* the caller is at, `sibling` the one it is not at
InitParses ==
    /\ parser \in Parsers
    /\ alphabet = ParsesAlphabet
    /\ token = NoToken
    /\ ntok = 0
    /\ is_end = FALSE
    /\ StartsFrom(parse(parser))
    /\ mode = "parses"
    /\ input = <<>>
    /\ offset = 0
    /\ data = <<>>
    /\ is_ending = FALSE
    /\ done = FALSE
    /\ out = <<>>
    /\ split = FALSE
    /\ sibling = Fresh(parser)

\* the caller turns from one LowLevelN3Reader to the other
Switch ==
    /\ Holds(sibling.rr)
    /\ token' = sibling.token
    /\ ntok' = sibling.ntok
    /\ is_end' = sibling.is_end
    /\ error_seen' = sibling.error_seen
    /\ sibling' = ThisParse
    /\ UNCHANGED <<parser, alphabet, mode, input, offset, data, is_ending,
                   done, out, split>>

NextParses ==
    \/ RecognizeNext
    \/ LexerError
    \/ RecognizeEnd
    \/ Switch

SpecParses == InitParses /\ [][NextParses]_vars

(***************************************************************************)
(* Parser<N3Recognizer>: the lexer's buffer and the recognizer.  The value *)
(* p holds the recognizer p.rr, the buffered bytes p.data, the lexer's     *)
(* end-of-input flag p.is_ending and p.done, set once recognize_end has    *)
(* taken the recognizer.                                                   *)
(***************************************************************************)
NoQuad ==
    [subject |-> NoTerm, predicate |-> NoTerm, object |-> NoTerm,
     graph_name |-> NoTerm]

\* Some(Ok(quad)), Some(Err(error)) and None
SomeOk(q) == [some |-> TRUE, ok |-> TRUE, quad |-> q, error |-> ""]

SomeErr(msg) == [some |-> TRUE, ok |-> FALSE, quad |-> NoQuad, error |-> msg]

None == [some |-> FALSE, ok |-> FALSE, quad |-> NoQuad, error |-> ""]

\* Parser::new
Parser_new(rr) ==
    [rr |-> rr, data |-> <<>>, is_ending |-> FALSE, done |-> FALSE,
     split |-> FALSE]

\* Parser::extend_from_slice: the bytes are appended to the buffer
Parser_extend_from_slice(p, other) == [p EXCEPT !.data = @ \o other]

\* Parser::end
Parser_end(p) == [p EXCEPT !.is_ending = TRUE]

\* Parser::is_end: end has been called and read_next has nothing to return
Parser_is_end(p) ==
    p.is_ending /\ p.done /\ p.rr.results = <<>> /\ p.rr.errors = <<>>

RECURSIVE Parser_read_next_resuming(_)
\* mutant of Parser::read_next: after a lexical error the parser goes on
\* from the recognizer's error recovery state
Parser_read_next_resuming(p) ==
    IF p.rr.errors # <<>>
    THEN [p |-> [p EXCEPT !.rr.errors = Tail(@)],
          item |-> SomeErr(Head(p.rr.errors))]
    ELSE IF p.rr.results # <<>>
    THEN [p |-> [p EXCEPT !.rr.results = Tail(@), !.rr.notes = Tail(@)],
          item |-> SomeOk(Head(p.rr.results))]
    ELSE IF p.done \/ p.rr.panicked
    THEN [p |-> p, item |-> None]
    ELSE LET lexed == Lexer_read_next(p.data, p.is_ending, p.rr.base_iri) IN
         CASE lexed.kind = "token" ->
                Parser_read_next_resuming([p EXCEPT !.data = lexed.rest,
                                                    !.rr = Applied(@, lexed.token)])
           [] lexed.kind = "error" ->
                [p |-> [p EXCEPT !.data = lexed.rest,
                                 !.rr = error_recovery_state(Drained(@))],
                 item |-> SomeErr("lexical error")]
           [] lexed.kind = "need" ->
                [p |-> [p EXCEPT !.split = @ \/ lexed.rest # <<>>],
                 item |-> None]
           [] lexed.kind = "end" ->
                Parser_read_next_resuming([p EXCEPT !.data = lexed.rest,
                                                    !.done = TRUE,
                                                    !.rr = recognize_end(Drained(@))])

RECURSIVE Parser_read_next(_)
\* Parser::read_next: a buffered error or quad if there is one; otherwise
\* tokens go from the lexer to the recognizer until one is produced, the
\* lexer needs more input, or the input has ended and recognize_end has run.
\* A lexical error is returned at once and the parser stops.
Parser_read_next(p) ==
    IF p.rr.errors # <<>>
    THEN [p |-> [p EXCEPT !.rr.errors = Tail(@)],
          item |-> SomeErr(Head(p.rr.errors))]
    ELSE IF p.rr.results # <<>>
    THEN [p |-> [p EXCEPT !.rr.results = Tail(@), !.rr.notes = Tail(@)],
          item |-> SomeOk(Head(p.rr.results))]
    ELSE IF p.done \/ p.rr.panicked
    THEN [p |-> p, item |-> None]
    ELSE LET lexed == Lexer_read_next(p.data, p.is_ending, p.rr.base_iri) IN
         CASE lexed.kind = "token" ->
                Parser_read_next([p EXCEPT !.data = lexed.rest,
                                           !.rr = Applied(@, lexed.token)])
           [] lexed.kind = "error" ->
                [p |-> [p EXCEPT !.data = lexed.rest,
                                 !.done = TRUE,
                                 !.rr = error_recovery_state(Drained(@))],
                 item |-> SomeErr("lexical error")]
           [] lexed.kind = "need" ->
                [p |-> [p EXCEPT !.split = @ \/ lexed.rest # <<>>],
                 item |-> None]
           [] lexed.kind = "end" ->
                Parser_read_next([p EXCEPT !.data = lexed.rest,
                                           !.done = TRUE,
                                           !.rr = recognize_end(Drained(@))])

(***************************************************************************)
(* The three facades of N3Parser.                                          *)
(***************************************************************************)
\* mutant of N3Parser::parse_read: the reader is given a parser without the
\* configured base IRI and prefixes
parse_read_default(p) == Parser_new(new_parser(NoBase, NoPrefixes))

\* N3Parser::parse_read: FromReadN3Reader over self.parse().parser
parse_read(p) == Parser_new(parse(p))

\* N3Parser::parse_tokio_async_read: FromTokioAsyncReadN3Reader over
\* self.parse().parser
parse_tokio_async_read(p) == Parser_new(parse(p))

\* N3Parser::parse: LowLevelN3Reader
LowLevelN3Reader(p) == Parser_new(parse(p))

\* mutant of LowLevelN3Reader::extend_from_slice: the new bytes replace the
\* bytes the lexer has not consumed yet
extend_from_slice_replace(p, other) == [p EXCEPT !.data = other]

\* mutant of LowLevelN3Reader::extend_from_slice: the bytes are taken to
\* be the last of the input
extend_from_slice_last(p, other) ==
    Parser_end(Parser_extend_from_slice(p, other))

\* LowLevelN3Reader::extend_from_slice
extend_from_slice(p, other) == Parser_extend_from_slice(p, other)

\* LowLevelN3Reader::end
end(p) == Parser_end(p)

\* mutant of LowLevelN3Reader::read_next: None, without a call of the parser
read_next_idle(p) == [p |-> p, item |-> None]

\* LowLevelN3Reader::read_next
read_next(p) == Parser_read_next(p)

RECURSIVE ReadAllFrom(_, _)
\* the caller's loop `while let Some(x) = reader.read_next()`, from the
\* value `r` of one call of read_next on
ReadAllFrom(r, items) ==
    IF r.item.some
    THEN ReadAllFrom(read_next(r.p),
                     IF r.item = SomeErr("") THEN items
                     ELSE Append(items, r.item))
    ELSE [p |-> r.p, items |-> items]

\* the parser after the caller's loop and the items the loop has read
ReadAll(p) == ReadAllFrom([p |-> p, item |-> SomeErr("")], <<>>)

\* the whole input fed as a single chunk through the low-level reader
WholeBlob(p, bytes) ==
    LET fed == ReadAll(extend_from_slice(LowLevelN3Reader(p), bytes))
        ended == ReadAll(end(fed.p))
    IN fed.items \o ended.items

(***************************************************************************)
(* The inputs of the byte-fed parses.                                      *)
(***************************************************************************)
\* length of the byte strings fed exhaustively
MaxInput == 4

ShortBytes == {"<", "a", ">", "=", ".", " "}

ShortInputs == UNION {[1..n -> ShortBytes] : n \in 0..MaxInput}

A == <<"<", "a", ">">>

B == <<"<", "b", ">">>

SP == <<" ">>

\* <a> <b> <a>.<b> a <a> .
DocTriples ==
    A \o SP \o B \o SP \o A \o <<".">> \o B \o <<" ", "a", " ">> \o A
      \o <<" ", ".">>

\* <a><=<b>.
DocInverted == A \o <<"<", "=">> \o B \o <<".">>

\* {<a> = <b>}=>{<b> a <a>}.
DocFormulas ==
    <<"{">> \o A \o <<" ", "=", " ">> \o B \o <<"}", "=", ">", "{">> \o B
      \o <<" ", "a", " ">> \o A \o <<"}", ".">>

\* <a>^<b> a "s"^^<a>.
DocPath ==
    A \o <<"^">> \o B \o <<" ", "a", " ", "\"", "s", "\"", "^", "^">> \o A
      \o <<".">>

\* a comment, a statement, a comment that the end of the input closes
DocComments ==
    <<"#", "a", "\n">> \o A \o <<" ", "a", " ">> \o B \o <<".", "#", "a">>

\* <a> } . <a> a <b> . <a
DocErrors ==
    A \o <<" ", "}", " ", ".", " ">> \o A \o <<" ", "a", " ">> \o B
      \o <<" ", ".", " ", "<", "a">>

\* @base <x:b#>.<a> p:a <b>.
DocBase ==
    <<"@", "b", "a", "s", "e", " ", "<", "x", ":", "b", "#", ">", ".">>
      \o A \o <<" ", "p", ":", "a", " ">> \o B \o <<".">>

Documents ==
    {DocTriples, DocInverted, DocFormulas, DocPath, DocComments, DocErrors,
     DocBase}

FeedCases ==
    ({Configured, Default} \X Documents) \cup ({Configured} \X ShortInputs)

Modes == {"parse", "parse_read", "parse_tokio_async_read"}

\* the parser the facade of the mode starts from
Facade(m, p) ==
    CASE m = "parse" -> LowLevelN3Reader(p)
      [] m = "parse_read" -> parse_read(p)
      [] m = "parse_tokio_async_read" -> parse_tokio_async_read(p)

\* the parser value the variables hold
ThisParser ==
    [rr |-> Self, data |-> data, is_ending |-> is_ending, done |-> done,
     split |-> split]

StoreParser(p) ==
    /\ Store(p.rr)
    /\ data' = p.data
    /\ is_ending' = p.is_ending
    /\ done' = p.done
    /\ split' = p.split
    /\ is_end' = Parser_is_end(p)

FeedInit ==
    /\ mode \in Modes
    /\ \E c \in FeedCases : parser = c[1] /\ input = c[2]
    /\ alphabet = {}
    /\ token = NoToken
    /\ ntok = 0
    /\ is_end = FALSE
    /\ offset = 0
    /\ out = <<>>
    /\ LET p == Facade(mode, parser) IN
       /\ StartsFrom(p.rr)
       /\ data = p.data
       /\ is_ending = p.is_ending
       /\ done = p.done
       /\ split = p.split
    /\ sibling = Fresh(Default)

\* the next `n` bytes of the source
Chunk(n) == SubSeq(input, offset + 1, offset + n)

Remaining == Len(input) - offset

\* the items a loop over read_next has read are handed to the caller
Returned(r) ==
    /\ StoreParser(r.p)
    /\ out' = out \o r.items

\* the caller of the low-level reader feeds a chunk and drains read_next
ExtendFromSlice ==
    /\ mode = "parse"
    /\ ~is_ending
    /\ \E n \in 1..Remaining :
         /\ Returned(ReadAll(extend_from_slice(ThisParser, Chunk(n))))
         /\ offset' = offset + n
    /\ UNCHANGED <<parser, alphabet, token, ntok, mode, input, sibling>>

\* the caller of the low-level reader signals the end and drains read_next
End ==
    /\ mode = "parse"
    /\ ~is_ending
    /\ Remaining = 0
    /\ Returned(ReadAll(end(ThisParser)))
    /\ UNCHANGED <<parser, alphabet, token, ntok, mode, input, offset, sibling>>

\* one turn of the loop of the reader iterators: read_next; if it has
\* nothing and the parse is not finished, one read of the source into the
\* buffer, where a read of no byte is the end of the input
ReadTurn(r) ==
    IF r.item.some
    THEN /\ StoreParser(r.p)
         /\ out' = Append(out, r.item)
         /\ offset' = offset
    ELSE IF Remaining = 0
    THEN /\ StoreParser(Parser_end(r.p))
         /\ UNCHANGED <<out, offset>>
    ELSE \E n \in 1..Remaining :
            /\ StoreParser(Parser_extend_from_slice(r.p, Chunk(n)))
            /\ offset' = offset + n
            /\ out' = out

\* FromReadN3Reader::next
FromReadNext ==
    /\ mode = "parse_read"
    /\ ~is_end
    /\ ~panicked
    /\ ReadTurn(Parser_read_next(ThisParser))
    /\ UNCHANGED <<parser, alphabet, token, ntok, mode, input, sibling>>

\* FromTokioAsyncReadN3Reader::next
FromTokioAsyncReadNext ==
    /\ mode = "parse_tokio_async_read"
    /\ ~is_end
    /\ ~panicked
    /\ ReadTurn(Parser_read_next(ThisParser))
    /\ UNCHANGED <<parser, alphabet, token, ntok, mode, input, sibling>>

FeedNext ==
    \/ ExtendFromSlice
    \/ End
    \/ FromReadNext
    \/ FromTokioAsyncReadNext

SpecFeed == FeedInit /\ [][FeedNext]_vars

\* the feeding loop of the chunk-fed reader
LoopInit ==
    /\ FeedInit
    /\ mode = "parse"

LoopNext ==
    \/ ExtendFromSlice
    \/ End

\* the body of `while !parser.is_end()` as the caller goes through it:
\* the next chunk is fed, or end is called when no chunk is left
LoopBody ==
    /\ mode = "parse"
    /\ ~is_ending
    /\ \/ \E n \in 1..Remaining : offset' = offset + n /\ is_ending' = is_ending
       \/ Remaining = 0 /\ offset' = offset /\ is_ending' = TRUE

\* the loop goes on while is_end is false
SpecFeedLoop ==
    LoopInit /\ [][LoopNext]_vars /\ WF_<<offset, is_ending>>(LoopBody)

(***************************************************************************)
(* Properties of the facades.                                              *)
(***************************************************************************)
\* the quads of a sequence of returned items, in order
OkQuads(items) == SelectSeq(items, LAMBDA item : item.ok)

IsPrefix(s, t) == Len(s) <= Len(t) /\ s = SubSeq(t, 1, Len(s))

\* C1: whatever the chunks the input is cut into, the quads and errors the
\* low-level reader has returned after a chunk are the beginning of what it
\* returns for the whole input fed as one chunk, and once end has been
\* called and read_next drained they are the same sequence.
C1_ChunkedEqualsWhole ==
    mode = "parse" =>
        /\ IsPrefix(out, WholeBlob(parser, input))
        /\ is_end => out = WholeBlob(parser, input)

\* C1 witness: a chunk-fed parse has finished, a chunk ended inside a token
\* and quads were returned.
C1_Witness ==
    /\ mode = "parse"
    /\ is_end
    /\ split
    /\ Len(OkQuads(out)) >= 2

\* C2: a finished parse through the blocking reader or through the
\* nonblocking reader has returned the quads the chunk-fed reader returns
\* for the same configuration and bytes, in the same order.
C2_FacadesAgree ==
    (mode \in {"parse_read", "parse_tokio_async_read"} /\ is_end) =>
        OkQuads(out) = OkQuads(WholeBlob(parser, input))

\* C2 witness: a parse through the nonblocking reader with a configured
\* base IRI has finished, a read ended inside a token and quads were
\* returned.
C2_Witness ==
    /\ mode = "parse_tokio_async_read"
    /\ parser = Configured
    /\ is_end
    /\ split
    /\ Len(OkQuads(out)) >= 2

(***************************************************************************)
(* Properties of the recognizer.                                           *)
(***************************************************************************)
Quads == 1..Len(results)

IsLiteral(term) == term.kind = "Literal"

IsDefaultBlankNode(term) == term.kind = "BlankNode" /\ term.n > 0

\* C3: in a parse without error, the quad ObjectsListEnd emits for an object
\* under a regular verb has as subject the subject of the triples clause or
\* property list that directly contains the object list, whatever the object.
C3_ObjectQuadSubject ==
    ~error_seen =>
        \A i \in Quads :
            (notes[i].by = "ObjectsListEnd" /\ ~notes[i].inverted)
                => results[i].subject = notes[i].clause

\* C4: under an inverted verb the quad of every object o is (o, p, s) with s
\* the subject of the clause the object list belongs to.
C4_InvertedQuadObject ==
    ~error_seen =>
        \A i \in Quads :
            (notes[i].by = "ObjectsListEnd" /\ notes[i].inverted)
                => results[i].object = notes[i].clause

C6_GraphIsInnermostFormula ==
    \A i \in Quads : results[i].graph_name = notes[i].formula

C8_ContextDepth ==
    Len(contexts) = Len(formulas)

\* C9: when N3DocExpectDot has accepted a '.', the work stack is [N3Doc] and
\* the term stack and the predicate stack are empty.
C9_AfterDot ==
    accepted_dot =>
        /\ stack = <<St("N3Doc")>>
        /\ terms = <<>>
        /\ predicates = <<>>

\* C10: after N3Recognizer::error has run, the term stack, the predicate
\* stack and the context stack are empty (and the work stack holds nothing
\* of the failed statement).
C10_ErrorClearsStacks ==
    failed =>
        /\ stack \in {<<>>, <<St("N3Doc")>>}
        /\ terms = <<>>
        /\ predicates = <<>>
        /\ contexts = <<>>

\* C11 as stated: once an error has been recorded, no token up to and
\* including the next '.' emits a quad or records an error, and that '.'
\* leaves the work stack equal to [N3Doc].
C11_DiscardUntilDot ==
    [][(awaiting_dot /\ token' # NoToken) =>
            /\ results' = <<>>
            /\ errors' = <<>>
            /\ token' = Punctuation(".") => stack' = <<St("N3Doc")>>
      ]_vars

\* C11 amended: N3Recognizer::error leaves the work stack empty; while it is
\* empty every token is discarded (no quad, no error, an empty work stack
\* again) except '.', which emits nothing and sets the work stack to [N3Doc].
\* The errors recorded without N3Recognizer::error (a missing '.' or ']') do
\* not start a discard: parsing goes on with the same token.
C11_ResyncAfterError ==
    [][/\ failed' =>
            \/ stack' = <<>>
            \/ token' = Punctuation(".") /\ stack' = <<St("N3Doc")>>
       /\ (stack = <<>> /\ token' # NoToken) =>
            /\ results' = <<>>
            /\ errors' = <<>>
            /\ stack' = IF token' = Punctuation(".") THEN <<St("N3Doc")>> ELSE <<>>
      ]_vars

\* C11 witness: after an error and the '.' that ended the discard, a
\* statement has been parsed to its '.' and has emitted a quad.
C11_Witness ==
    /\ resumed
    /\ accepted_dot
    /\ results # <<>>
    /\ errors = <<>>

\* the rule on top of the work stack, "" when the stack is empty
Top == IF stack = <<>> THEN "" ELSE Last(stack).state

\* C12: the base IRI and the prefix table are single tables of the parse.
\* The IRI that completes a base or prefix directive replaces the base IRI
\* or sets the prefix, however many formulas are open; no other token
\* changes either table, so that neither '{' nor '}' saves or restores
\* them; and a prefixed name is expanded with the table as it stands when
\* the name is read, wherever the prefix was declared.
C12_DirectivesAreGlobal ==
    [][/\ IF Top = "BaseExpectIri" /\ token'.type = "IriRef"
          THEN base_iri' = token'.v /\ prefixes' = prefixes
          ELSE IF Top = "PrefixExpectIri" /\ token'.type = "IriRef"
          THEN /\ prefixes' = Insert(prefixes, Last(stack).name, token'.v)
               /\ base_iri' = base_iri
          ELSE base_iri' = base_iri /\ prefixes' = prefixes
       /\ (/\ token'.type = "PrefixedName"
           /\ token'.local # ""
           /\ stack # <<>>
           /\ errors' = <<>>) =>
              /\ token'.v \in DOMAIN prefixes
              /\ terms' # <<>>
              /\ prefixes[token'.v] \o token'.local
                     \in {Last(terms').v, Last(terms').datatype}
      ]_vars

\* C12 witness: a prefix declared inside a formula is used to expand a
\* prefixed name read after the formula's closing '}', at document level.
C12_Witness ==
    /\ directive_depth = 1
    /\ formulas = <<>>
    /\ contexts = <<>>
    /\ ~error_seen
    /\ token = PrefixedName("p", "a", FALSE)
    /\ terms # <<>>
    /\ Last(terms) = NamedNode("http://x/a")

\* the tokens that can begin a statement or a directive without error
BeginsStatement(t) ==
    \/ t.type = "IriRef"
    \/ t = Punctuation("{")
    \/ t.type = "LangTag" /\ t.v \in {"base", "prefix"}
    \/ t.type = "PlainKeyword" /\ ToAsciiLowercase(t.v) \in {"base", "prefix"}

DotExpected == "A dot is expected at the end of N3 statements"

\* C13: the token after a completed '@base' or '@prefix' directive, unless it
\* is the '.' (or the '}' that ends the formula), records the error that a
\* dot is expected; a token that begins a statement right after a completed
\* 'BASE' or 'PREFIX' directive records no error.
C13_DotAfterAtDirective ==
    /\ (/\ followed = "@"
        /\ token \notin {NoToken, Punctuation("."), Punctuation("}")}) =>
            errors # <<>> /\ Head(errors) = DotExpected
    /\ (followed = "sparql" /\ BeginsStatement(token)) => errors = <<>>

\* C13 witness: inside a formula, a statement begun right after a completed
\* '@base' directive has recorded the error.
C13_Witness ==
    /\ followed = "@"
    /\ formulas # <<>>
    /\ token.type = "IriRef"
    /\ errors = <<DotExpected>>

\* C13 second witness: inside a formula, a statement begun right after a
\* completed 'PREFIX' directive has recorded no error.
C13_WitnessSparql ==
    /\ followed = "sparql"
    /\ formulas # <<>>
    /\ token = PrefixedName("p", "a", FALSE)
    /\ errors = <<>>
    /\ terms # <<>>

\* C14: the collection a ')' token closes has, for its n >= 1 cells b1..bn
\* (the blank nodes made for it, pairwise distinct), emitted exactly the 2n
\* quads (b1 rdf:first x1), (b1 rdf:rest b2), ..., (bn rdf:first xn),
\* (bn rdf:rest rdf:nil) in this order, and its resulting term is b1; the
\* empty collection emits no quad and its resulting term is rdf:nil.
C14_CollectionSpine ==
    closed_list.some =>
        LET cells == closed_list.cells
            quads == closed_list.quads
            n == Len(cells)
        IN /\ terms # <<>>
           /\ Last(terms) = IF n = 0 THEN RDF_NIL ELSE cells[1]
           /\ n = 0 => results = <<>>
           /\ Len(quads) = 2 * n
           /\ \A i, j \in 1..n : i # j => cells[i] # cells[j]
           /\ \A i \in 1..n :
                 /\ IsDefaultBlankNode(cells[i])
                 /\ quads[2 * i - 1].subject = cells[i]
                 /\ quads[2 * i - 1].predicate = RDF_FIRST
                 /\ quads[2 * i].subject = cells[i]
                 /\ quads[2 * i].predicate = RDF_REST
                 /\ quads[2 * i].object = IF i = n THEN RDF_NIL ELSE cells[i + 1]

\* C15: the quad of a path step relates the term s the step started from
\* and a blank node t made for the step, as (s, p, t) for '!' and (t, p, s)
\* for '^'; t differs from s and is the current term after the step: it is
\* on top of the term stack, and a step begun by the same token starts
\* from it.
C15_PathStep ==
    \A i \in Quads :
        notes[i].by = "PathAfterIndicator" =>
            LET t == IF notes[i].inverted THEN results[i].subject
                     ELSE results[i].object
                s == IF notes[i].inverted THEN results[i].object
                     ELSE results[i].subject
            IN /\ IsDefaultBlankNode(t)
               /\ s = notes[i].origin
               /\ t # s
               /\ (i = Len(results) /\ IsPunctuation(token, {"!", "^"})) =>
                      /\ steps # <<>> /\ Last(steps) = t
                      /\ terms # <<>> /\ Last(terms) = t

\* the blank nodes the parser has made that a quad relates
MadeNodes(q) == {t \in {q.subject, q.object} : IsDefaultBlankNode(t)}

\* the quad of the entry `e` was produced while the object `b` was parsed:
\* a spine quad of the collection that begins with b, a quad of the
\* predicate-object list of the property list b, the quad of the path step
\* b was made for, or a quad of the body of the formula b
Produces(e, b) ==
    \/ e.note.by = "CollectionPossibleEnd" /\ e.note.list = b
    \/ e.note.by = "ObjectsListEnd" /\ e.note.clause = b
    \/ /\ e.note.by = "PathAfterIndicator"
       /\ b = IF e.note.inverted THEN e.quad.subject ELSE e.quad.object
    \/ e.note.formula = b

\* the quad of the entry `e` uses the object `b` as its subject or object
Uses(e, b) == b \in MadeNodes(e.quad) /\ ~Produces(e, b)

\* the tokens and quads of  <a> <a> ( <a> <a> ) .
ExampleTokens ==
    <<IriA, IriA, Punctuation("("), IriA, IriA, Punctuation(")"), Dot>>

ExampleQuads ==
    LET a == NamedNode("http://e/a")
        l1 == DefaultBlankNode(1)
        l2 == DefaultBlankNode(2)
        q(s, p, o) == [subject |-> s, predicate |-> p, object |-> o,
                       graph_name |-> DefaultGraph]
    IN <<q(l1, RDF_FIRST, a), q(l1, RDF_REST, l2), q(l2, RDF_FIRST, a),
         q(l2, RDF_REST, RDF_NIL), q(a, a, l1)>>

C17_FreshBlankNodes ==
    [][\A i \in 1..Len(made') :
           /\ made'[i] \notin all_made
           /\ made'[i] \notin written'
           /\ \A j \in 1..Len(made') : i # j => made'[i] # made'[j]]_vars

\* two constructs have been opened in a parse that also wrote a label
C17_Witness ==
    /\ made # <<>>
    /\ Cardinality(all_made) >= 3
    /\ formula_nodes # {}
    /\ ~error_seen

C17_WitnessLabel ==
    /\ made # <<>>
    /\ Cardinality(all_made) >= 2
    /\ written # {}
    /\ ~error_seen

\* C18: in a parse without error, the blank node of a property list
\* '[ ... ]' is one the parser made; every quad an object list directly
\* inside the brackets emits has that node as subject, or as object under
\* an inverted verb; when ']' closes the list the node is the term on top
\* of the term stack; '[ ]' makes its node and emits no quad
C18_PropertyList ==
    ~error_seen =>
        /\ property_nodes \subseteq all_made
        /\ \A i \in Quads :
               (notes[i].by = "ObjectsListEnd" /\ notes[i].clause \in property_nodes)
                   => IF notes[i].inverted
                      THEN results[i].object = notes[i].clause
                      ELSE results[i].subject = notes[i].clause
        /\ (closed_property.some /\ closed_property.node \in property_nodes)
               => (terms # <<>> /\ Last(terms) = closed_property.node)
        /\ (closed_property.some /\ closed_property.empty)
               => (results = <<>> /\ made = <<closed_property.node>>)

\* C19: in a parse without error the predicate stack holds one frame for
\* each verb whose object list is open and no other, and the frame of a verb
\* is the one its form gives: 'a' regular rdf:type, '=' regular owl:sameAs,
\* '=>' regular log:implies, '<=' inverted log:implies, 'has expr' regular
\* expr, 'is expr of' and '<- expr' inverted expr, any other expression a
\* regular predicate
C19_VerbFrames ==
    ~error_seen => predicates = frames

\* what a call of recognize_next leaves: the quads and errors of the token
\* and the four stacks
Outcome(r) == <<r.results, r.errors, r.stack, r.terms, r.predicates, r.contexts>>

\* the recognizer as it is, with the rule on top of the work stack replaced
\* by the rules `rules`
Instead(rules) == [Self EXCEPT !.stack = Front(@) \o rules]

\* the token closes the statement, property list or formula that the
\* predicate-object list belongs to, s being the work stack below the rule
\* PredicateObjectListPossibleContinuation
ClosesList(tok, s) ==
    \/ /\ tok = Punctuation("]")
       /\ s # <<>>
       /\ Last(s).state = "PropertyListEnd"
    \/ /\ tok \in {Punctuation("."), Punctuation("}")}
       /\ Len(s) >= 2
       /\ Last(s).state = "TriplesEnd"
       /\ \/ tok = Punctuation(".")
             /\ s[Len(s) - 1].state \in {"N3DocExpectDot", "FormulaContentExpectDot"}
          \/ tok = Punctuation("}")
             /\ s[Len(s) - 1].state = "FormulaContentExpectDot"

C20_WitnessTerminator ==
    /\ token = Punctuation("]")
    /\ closed_property.some
    /\ ~closed_property.empty
    /\ results = <<>>
    /\ errors = <<>>
    /\ ~error_seen

\* the work stack holds the rules of a triples clause whose subject has
\* been read, above the rule `below`
AfterSubject(below) ==
    /\ Len(stack) >= 3
    /\ Top = "PathFollowUp"
    /\ stack[Len(stack) - 1].state = "TriplesMiddle"
    /\ stack[Len(stack) - 2].state = below

\* C21: the '.' or '}' that ends a triples clause right after its subject
\* records no error and emits no quad; and in a parse without error no
\* quad an object list emits has the subject of such a clause as its
\* subject, unless that term is also the subject written for the clause of
\* the object list
C21_SubjectOnlyClause ==
    [][/\ (\/ /\ token' = Punctuation(".")
              /\ AfterSubject("N3DocExpectDot") \/ AfterSubject("FormulaContentExpectDot")
           \/ /\ token' = Punctuation("}")
              /\ AfterSubject("FormulaContentExpectDot"))
              => (errors' = <<>> /\ results' = <<>>)
       /\ ~error_seen' =>
              \A i \in 1..Len(results') :
                  (/\ notes'[i].by = "ObjectsListEnd"
                   /\ ~notes'[i].inverted
                   /\ results'[i].subject \in bare')
                      => notes'[i].clause = results'[i].subject]_vars

\* C22: the step that reaches the end of the input records the one error
\* 'Unexpected end' when the work stack is neither empty nor [N3Doc], and
\* no error when it is; it emits no quad
C22_UnexpectedEnd ==
    [][(~is_end /\ is_end' /\ ntok' = ntok) =>
           /\ results' = <<>>
           /\ errors' = IF stack = <<>> \/ stack = <<St("N3Doc")>>
                        THEN <<>>
                        ELSE <<"Unexpected end">>]_vars

\* the input ended inside a statement
C22_Witness ==
    /\ is_end
    /\ ntok > 0
    /\ Len(stack) > 1
    /\ errors = <<"Unexpected end">>

\* the input ended after the '.' of a statement
C22_WitnessClean ==
    /\ is_end
    /\ ntok > 0
    /\ stack = <<St("N3Doc")>>
    /\ errors = <<>>
    /\ ~error_seen

IsWithoutOf ==
    "The keyword 'is' should be followed by a predicate then by the keyword 'of'"

\* C23: the token that follows the expression after 'is' and is not 'of'
\* records the error, leaves the work stack empty and lets no object list
\* emit a quad; the '.' that ends the discard of tokens after this error
\* sets the work stack to [N3Doc] with no formula open, so that the quads of
\* the statements after it get the default graph
C23_IsWithoutOf ==
    [][/\ (\E i \in 1..Len(errors') : errors'[i] = IsWithoutOf) =>
              /\ stack' = <<>>
              /\ \A i \in 1..Len(results') : notes'[i].by # "ObjectsListEnd"
       /\ (stack = <<>> /\ failure = IsWithoutOf /\ token' = Punctuation(".")) =>
              /\ stack' = <<St("N3Doc")>>
              /\ contexts' = <<>>]_vars

\* the token names a datatype: an IRI reference, or a prefixed name that
\* resolves with the prefix table
IsDatatype(t, table) ==
    \/ t.type = "IriRef"
    \/ /\ t.type = "PrefixedName"
       /\ resolve_local_name(t.v, t.local, t.might_be_invalid_iri, table).ok

NoDatatype == "Expecting a datatype IRI after '^^"

\* C24: a token after '^^' that is neither an IRI reference nor a prefixed
\* name that resolves records one error in its own step, pushes no term,
\* emits no quad and leaves the work stack empty, or [N3Doc] when the
\* token is the '.' the parse resumes at
C24_DatatypeExpected ==
    [][(/\ Top = "LiteralExpectDatatype"
        /\ ntok' = ntok + 1
        /\ token' # NoToken
        /\ ~IsDatatype(token', prefixes)) =>
           /\ Len(errors') = 1
           /\ token'.type # "PrefixedName" => errors'[1] = NoDatatype
           /\ terms' = terms
           /\ results' = <<>>
           /\ stack' = IF token' = Dot THEN <<St("N3Doc")>> ELSE <<>>]_vars

\* '^^' in the object of a statement was followed by the '.'
C24_Witness ==
    /\ token = Dot
    /\ errors = <<NoDatatype>>
    /\ stack = <<St("N3Doc")>>
    /\ terms # <<>>
    /\ predicates # <<>>

\* the token is a prefixed name whose prefix the table does not hold
Undeclared(t, table) == t.type = "PrefixedName" /\ t.v \notin DOMAIN table

\* the named nodes among the terms
NamedNodes(ts) == {ts[i] : i \in {j \in 1..Len(ts) : ts[j].kind = "NamedNode"}}

\* C25: a prefixed name whose prefix is not in the prefix table when the
\* token is applied records an error, leaves the work stack empty and
\* puts no named node on the term stack, whatever rule it reaches while
\* rules are pending, the name a prefix directive declares excepted; as a
\* path item, after '[ id' and after '^^' this error is the only one and
\* the term stack is unchanged
C25_UndeclaredPrefix ==
    [][(/\ Undeclared(token', prefixes)
        /\ ntok' = ntok + 1
        /\ stack # <<>>
        /\ Top # "PrefixExpectPrefix") =>
           /\ errors' # <<>>
           /\ stack' = <<>>
           /\ NamedNodes(terms') \subseteq NamedNodes(terms)
           /\ Top \in {"PathItem", "IriPropertyList", "LiteralExpectDatatype"} =>
                  /\ unresolved' = Top
                  /\ Len(errors') = 1
                  /\ terms' = terms
                  /\ results' = <<>>]_vars

\* the name after '[ id' has an undeclared prefix
C25_Witness ==
    /\ unresolved = "IriPropertyList"
    /\ token = PrefixedName("q", "a", FALSE)
    /\ stack = <<>>
    /\ Len(errors) = 1

\* the path item after '!' or '^', or the first of a path, has an
\* undeclared prefix
C25_WitnessPathItem ==
    /\ unresolved = "PathItem"
    /\ token.type = "PrefixedName"
    /\ stack = <<>>
    /\ Len(errors) = 1

\* the datatype after '^^' has an undeclared prefix
C25_WitnessDatatype ==
    /\ unresolved = "LiteralExpectDatatype"
    /\ token = PrefixedName("q", "a", FALSE)
    /\ stack = <<>>
    /\ Len(errors) = 1

\* C26: a parse that has taken no token is in the state new_parser builds
\* from the base IRI and the prefix table of the N3Parser, whatever the
\* other parse started from the same N3Parser has processed; no step
\* changes the N3Parser, and a step of one parse leaves the other parse as
\* it is
C26_ParsesAreIndependent ==
    /\ []((ntok = 0 /\ ~is_end) =>
             /\ Self = new_parser(parser.base, parser.prefixes)
             /\ ~error_seen)
    /\ [][/\ parser' = parser
          /\ sibling' # sibling => (sibling' = ThisParse /\ ThisParse' = sibling)]_vars

\* the other parse has replaced its base IRI and recorded an error, and
\* this one has not begun
C26_Witness ==
    /\ mode = "parses"
    /\ parser = Configured
    /\ ntok = 0
    /\ ~is_end
    /\ sibling.rr.base_iri # parser.base
    /\ sibling.error_seen

\* the other parse has declared the prefix of the configuration anew, and
\* this one is inside a directive of its own
C26_WitnessPrefix ==
    /\ mode = "parses"
    /\ parser = Configured
    /\ ntok = 1
    /\ Top = "BaseExpectIri"
    /\ prefixes = parser.prefixes
    /\ sibling.rr.prefixes # parser.prefixes

\* C27: in the chunk-fed reader, after a chunk has been fed and read_next
\* drained, read_next returns None and is_end is false: only the call of
\* end can make is_end true; and once is_end is true read_next returns
\* None and leaves the parser as it is, so that every later call does
C27_EndIsDistinct ==
    [][mode = "parse" =>
           /\ offset' # offset =>
                  /\ ~is_end'
                  /\ ~read_next(ThisParser').item.some
           /\ is_end' =>
                  /\ is_ending'
                  /\ ~read_next(ThisParser').item.some
                  /\ read_next(ThisParser').p = ThisParser']_vars

\* the whole input has been fed and what it yields returned, read_next
\* returns None, and end has not been called
C27_Witness ==
    /\ mode = "parse"
    /\ Remaining = 0
    /\ out # <<>>
    /\ ~is_ending
    /\ ~is_end
    /\ ~read_next(ThisParser).item.some

\* end has been called and the parse is finished
C27_WitnessEnd ==
    /\ mode = "parse"
    /\ out # <<>>
    /\ is_end
    /\ ~read_next(ThisParser).item.some

\* C28: the feeding loop of the chunk-fed reader, which feeds the next
\* chunk or calls end when none is left and then drains read_next, reaches
\* a state where is_end is true, and has then returned the quads and
\* errors of the input, each once and in order, as one pass over the whole
\* input returns them
C28_FeedingLoopTerminates ==
    <>(/\ is_end
       /\ Remaining = 0
       /\ out = WholeBlob(parser, input))

\* the loop has ended after it has returned quads and errors
C28_Witness ==
    /\ mode = "parse"
    /\ is_end
    /\ Remaining = 0
    /\ \E i \in 1..Len(out) : out[i].ok
    /\ \E i \in 1..Len(out) : ~out[i].ok

LexicalError == SomeErr("lexical error")

Pending(states) == Cardinality({i \in 1..Len(stack) : stack[i].state \in states})

\* C30: no transition has unwrapped the top of an empty term, predicate
\* or context stack, whatever the tokens; and the rules waiting on the work
\* stack have what they will pop: a predicate for each pending
\* ObjectsListEnd, a context for each formula that is open, and for each
\* pending rule that pops a term a term of its own, on the term stack or
\* to be pushed by a pending path item
C30_NoEmptyStackAccess ==
    /\ ~panicked
    /\ Pending({"ObjectsListEnd"}) <= Len(predicates)
    /\ Pending({"FormulaContent", "FormulaContentExpectDot"}) <= Len(contexts)
    /\ Pending({"ObjectsListEnd", "PathAfterIndicator", "CollectionPossibleEnd",
                "AfterRegularVerb", "AfterInvertedVerb", "AfterVerbIs"})
           <= Len(terms) + Pending({"PathItem"})

\* in a parse with an error, ObjectsListEnd has just emitted a quad from
\* the only two terms and the only predicate there were
C30_Witness ==
    /\ error_seen
    /\ Len(terms) = 1
    /\ Len(predicates) = 1
    /\ \E i \in 1..Len(results) : notes[i].by = "ObjectsListEnd"

\* in a parse with an error, a '}' has just closed the only formula open
C30_WitnessFormula ==
    /\ error_seen
    /\ token = Punctuation("}")
    /\ closed # NoTerm
    /\ contexts = <<>>

\* C31: the application of one token comes to an end: the chain of
\* transitions it runs is shorter than the cut-off, and no longer than the
\* rules that were on the work stack with those the chain can push on top
\* of them; after the last of them the token is consumed, discarded or
\* rejected
C31_TokenApplicationEnds ==
    [][(ntok' = ntok + 1 /\ token' # NoToken) =>
           /\ dispatched' >= 1
           /\ dispatched' < Fuel
           /\ dispatched' <= Len(stack) + 4
           /\ stack = <<>> => dispatched' = 1]_vars

\* a token has gone through a chain of five transitions, the last of which
\* rejected it
C31_Witness ==
    /\ dispatched >= 5
    /\ failed
    /\ stack = <<>>

\* the fields of N3Recognizer but the work stack
Kept == <<base_iri, prefixes, terms, predicates, contexts>>

\* C32: a token applied while the work stack is empty emits no quad,
\* records no error and leaves the base IRI, the prefixes and the term,
\* predicate and context stacks as they are; the work stack stays empty,
\* but for '.', which sets it to [N3Doc] whatever formulas are open
C32_EmptyStackDiscards ==
    [][(stack = <<>> /\ ntok' = ntok + 1 /\ token' # NoToken) =>
           /\ results' = <<>>
           /\ errors' = <<>>
           /\ Kept' = Kept
           /\ stack' = IF token' = Dot THEN <<St("N3Doc")>> ELSE <<>>]_vars

\* after an error inside a formula of a statement, a token that is no '.'
\* has been dropped
C32_Witness ==
    /\ stack = <<>>
    /\ dispatched = 1
    /\ token # NoToken
    /\ terms # <<>>
    /\ contexts # <<>>

\* after an error inside a formula, a '.' has set the work stack to [N3Doc]
C32_WitnessDot ==
    /\ stack = <<St("N3Doc")>>
    /\ dispatched = 1
    /\ token = Dot
    /\ resumed
    /\ contexts # <<>>

\* C33: a step that records an error, syntax or lexical, and a step taken
\* while the work stack is empty leave the prefix table and the base IRI
\* as they are; and after an error a prefixed name whose prefix the table
\* holds is resolved, to the IRI the table has for it
C33_RecoveryKeepsDeclarations ==
    [][/\ (errors' # <<>> \/ stack = <<>>) =>
              /\ prefixes' = prefixes
              /\ base_iri' = base_iri
       /\ (/\ error_seen
           /\ token'.type = "PrefixedName"
           /\ token'.local # ""
           /\ token'.v \in DOMAIN prefixes
           /\ stack # <<>>) =>
              /\ unresolved' = ""
              /\ errors' = <<>> =>
                     /\ terms' # <<>>
                     /\ prefixes[token'.v] \o token'.local
                            \in {Last(terms').v, Last(terms').datatype}]_vars

\* a base declared at document level, an error in a formula opened after
\* it, and after the '.' that resumes the parse a relative IRI reference
\* resolved against that base as a subject
C33_Witness ==
    /\ error_seen
    /\ resumed
    /\ errors = <<>>
    /\ directive_depth = 0
    /\ contexts # <<>>
    /\ Pending({"FormulaContent", "FormulaContentExpectDot"}) = 0
    /\ base_iri # parser.base
    /\ token = IriRef(base_iri \o "r")
    /\ terms = <<NamedNode(base_iri \o "r")>>

\* a syntax error at the token after a prefix directive
C33_WitnessPrefix ==
    /\ failed
    /\ followed # ""
    /\ "p" \in DOMAIN prefixes
    /\ "p" \notin DOMAIN parser.prefixes

\* a lexical error after a prefix declared in the parse
C33_WitnessLexical ==
    /\ is_end
    /\ errors = <<"lexical error">>
    /\ "p" \in DOMAIN prefixes
    /\ "p" \notin DOMAIN parser.prefixes

\* the states of the rules on top of the work stack, innermost first, as
\* far as there are n of them
TopStates(n) ==
    [i \in 1..(IF Len(stack) < n THEN Len(stack) ELSE n) |->
        stack[Len(stack) + 1 - i].state]

\* an object has been read: ObjectsListEnd is the next rule, or the next
\* after the rule that ends the item or the step of the object's path, or
\* after that and the LiteralPossibleSuffix of a string whose term the next
\* token pushes
ObjectRead ==
    \/ TopStates(1) = <<"ObjectsListEnd">>
    \/ TopStates(2) \in {<<"PathFollowUp", "ObjectsListEnd">>,
                         <<"PathAfterIndicator", "ObjectsListEnd">>}
    \/ TopStates(3) \in
           {<<"LiteralPossibleSuffix", "PathFollowUp", "ObjectsListEnd">>,
            <<"LiteralPossibleSuffix", "PathAfterIndicator", "ObjectsListEnd">>}

\* the token goes on with the object: a path step, or the language tag or
\* the '^^' of a string
Extends(t) ==
    \/ IsPunctuation(t, {"!", "^"})
    \/ /\ Top = "LiteralPossibleSuffix"
       /\ t.type = "LangTag" \/ t = Punctuation("^^")

\* the pending ObjectsListEnd rules whose object has been begun: all but
\* the one a ',' has pushed under the Path of the object to come
Begun ==
    {i \in 1..Len(stack) :
        /\ stack[i].state = "ObjectsListEnd"
        /\ i < Len(stack) => stack[i + 1].state # "Path"}

\* the quads, by their notes, that ObjectsListEnd emitted
ObjectQuads(their_notes) ==
    {i \in 1..Len(their_notes) : their_notes[i].by = "ObjectsListEnd"}

\* C34: the quad of an object is emitted by the token applied after the
\* object has been read, and by no other: a token emits no more quads of
\* ObjectsListEnd than objects had been begun before it, a token that
\* records no error emits one only where an object had been read before
\* it, and the token applied after an object, unless it goes on with the
\* object, emits the quad of that object. The end of the input after an
\* object emits no quad and records the one error 'Unexpected end'
C34_QuadAtFollowingToken ==
    [][/\ (ntok' = ntok + 1 /\ token' # NoToken) =>
              /\ Cardinality(ObjectQuads(notes')) <= Cardinality(Begun)
              /\ (ObjectQuads(notes') # {} /\ errors' = <<>>) =>
                     /\ ObjectRead
                     /\ Cardinality(ObjectQuads(notes')) = 1
              /\ (ObjectRead /\ ~Extends(token')) =>
                     \E i \in 1..Len(results') : notes'[i].by = "ObjectsListEnd"
       /\ (ObjectRead /\ ~is_end /\ is_end' /\ ntok' = ntok) =>
              /\ results' = <<>>
              /\ errors' = <<"Unexpected end">>]_vars

\* the input has ended after the object of a triple with no '.': no quad
\* has been emitted in the whole parse
C34_Witness ==
    /\ is_end
    /\ ntok = 3
    /\ token = NoToken
    /\ errors = <<"Unexpected end">>
    /\ results = <<>>
    /\ Len(terms) = 2
    /\ terms[1].kind = "NamedNode"
    /\ predicates # <<>>
    /\ ObjectRead

\* the '.' after the object has emitted the quad of the object
C34_WitnessDot ==
    /\ token = Dot
    /\ ntok = 4
    /\ Len(results) = 1
    /\ notes[1].by = "ObjectsListEnd"
    /\ errors = <<>>
    /\ stack = <<St("N3Doc")>>

\* a statement or an '@' directive of the document, outside every
\* formula, has its '.' to come
DocumentStatement ==
    /\ Len(stack) >= 2
    /\ stack[1].state = "N3Doc"
    /\ stack[2].state = "N3DocExpectDot"
    /\ Pending({"FormulaContent", "FormulaContentExpectDot"}) = 0

\* the number of errors of the sequence that are the message
Count(es, msg) == Cardinality({i \in 1..Len(es) : es[i] = msg})

\* C35: a token whose first error is that the '.' of a document-level
\* statement is missing records the error 'dot expected' once; the error
\* leaves the work stack alone: the token is dispatched to N3Doc and, where
\* it can begin a statement, no further error is recorded, N3Doc is the
\* bottom of the work stack and an IRI is the subject of a new statement. The
\* quad of the object the statement before ended with is emitted by that
\* token
C35_MissingDot ==
    [][(/\ DocumentStatement
        /\ ntok' = ntok + 1
        /\ errors' # <<>>
        /\ Head(errors') = DotExpected) =>
           /\ Count(errors', DotExpected) = 1
           /\ ~failed' => (errors' = <<DotExpected>> /\ stack' # <<>>)
           /\ ObjectRead =>
                  \E i \in 1..Len(results') : notes'[i].by = "ObjectsListEnd"
           /\ BeginsStatement(token') =>
                  /\ ~failed'
                  /\ Len(stack') >= 2
                  /\ stack'[1].state = "N3Doc"
                  /\ token'.type = "IriRef" =>
                         /\ stack'[2].state = "N3DocExpectDot"
                         /\ Top' = "PathFollowUp"
                         /\ Last(terms') = NamedNode(token'.v)]_vars

\* the subject of a second statement where the '.' of the first was
\* expected: the quad of the first is emitted, the one error recorded
C35_Witness ==
    /\ ntok = 4
    /\ token.type = "IriRef"
    /\ errors = <<DotExpected>>
    /\ Len(results) = 1
    /\ notes[1].by = "ObjectsListEnd"
    /\ Len(stack) > 2
    /\ terms = <<NamedNode(token.v)>>

\* the '.' of the second statement, three tokens after the missing '.':
\* the quad of the second statement is emitted
C35_WitnessAfter ==
    /\ ntok = 7
    /\ token = Dot
    /\ accepted_dot
    /\ error_seen
    /\ ~resumed
    /\ ~awaiting_dot
    /\ errors = <<>>
    /\ Len(results) = 1
    /\ notes[1].by = "ObjectsListEnd"
    /\ stack = <<St("N3Doc")>>
    /\ terms = <<>>

\* the work stack is empty, or N3Doc is its bottom rule and no other
RootedStack(s) ==
    \/ s = <<>>
    \/ /\ s[1].state = "N3Doc"
       /\ \A i \in 2..Len(s) : s[i].state # "N3Doc"

\* C36: before and after every step the work stack is empty or has N3Doc
\* at its bottom and nowhere else; a step empties it only by an error that
\* clears it (N3Recognizer::error, or the recovery from a lexical error),
\* a '.' applied to the empty stack makes it [N3Doc], and where it is empty
\* an error has been recorded and no '.' accepted since, or the parse is over
C36_StackShape ==
    [][/\ RootedStack(stack)
       /\ RootedStack(stack')
       /\ (stack # <<>> /\ stack' = <<>>) =>
              \/ failed' /\ errors' # <<>>
              \/ errors' = <<"lexical error">>
       /\ (stack = <<>> /\ token' = Dot) => stack' = <<St("N3Doc")>>
       /\ stack' = <<>> => error_seen' /\ (awaiting_dot' \/ is_end')]_vars

\* a token that is no '.' has been dropped after an error inside a
\* statement: the work stack was empty before it and is empty after it
C36_Witness ==
    /\ stack = <<>>
    /\ ~failed
    /\ dispatched = 1
    /\ token # NoToken
    /\ followed = ""
    /\ ntok >= 4
    /\ predicates # <<>>

\* a statement is read after the '.' that ended the discard of tokens: N3Doc
\* is at the bottom of a stack of several rules
C36_WitnessRooted ==
    /\ resumed
    /\ Len(stack) >= 4
    /\ stack[1].state = "N3Doc"
    /\ terms # <<>>
    /\ ~awaiting_dot

====
